---- MODULE Spec2Model ----
(***************************************************************************)
(* Model of the binary patch engine of droid-patch (src/src/patcher.ts).   *)
(* A file system maps paths to byte sequences; patchDroid is a call that   *)
(* proceeds in steps: entry (existence check, read), one step per patch    *)
(* descriptor, then dry-run report, no-patch report, or backup, write and  *)
(* verification.  The caller builds one descriptor list and may invoke     *)
(* patchDroid repeatedly with different options.                           *)
(***************************************************************************)
EXTENDS Integers, Sequences, FiniteSets, TLC

\* ------------------------------------------------------------------ bounds
MaxLen == 2          \* longest input file, in bytes
MaxPatches == 2      \* longest descriptor list given to a single call
MaxSeqPatches == 1   \* longest descriptor list given to a sequence of calls
MaxCalls == 2        \* patchDroid calls in a sequence of calls
MaxScanLen == 4      \* longest buffer given to findAllPositions on its own
MaxPatternLen == 2   \* longest pattern given to findAllPositions on its own

\* Byte values that occur in files and descriptors.
Bytes == {1, 2, 3}

\* ------------------------------------------------------------------- paths
\* A path is a sequence of name components; <<>> is the absent (falsy)
\* outputPath option.  `${p}.patched` and `${p}.backup` append a component.
NoPath == <<>>
DroidPath == <<"droid">>
PatchedPath(p) == Append(p, "patched")
BackupPath(p) == Append(p, "backup")

existsSync(files, p) == p \in DOMAIN files

writeFile(files, p, data) ==
  [q \in (DOMAIN files) \cup {p} |-> IF q = p THEN data ELSE files[q]]

\* Faulty variant of copyFile: the destination is created empty.
copyFileEmpty(files, from, to) == writeFile(files, to, <<>>)

copyFile(files, from, to) == writeFile(files, to, files[from])

\* ------------------------------------------------------- buffer primitives
\* Offsets are 0-based as in the code; byte at offset o of b is b[o + 1].
MatchesAt(buffer, pattern, o) ==
  /\ o + Len(pattern) <= Len(buffer)
  /\ \A k \in 1..Len(pattern) : buffer[o + k] = pattern[k]

\* Buffer.indexOf(pattern, from): least offset >= from of an occurrence, or
\* -1; for an empty pattern it is from, or the length of the buffer when from
\* is beyond it.
IndexOf(buffer, pattern, from) ==
  LET hits == {o \in from..Len(buffer) : MatchesAt(buffer, pattern, o)}
  IN IF pattern = <<>>
     THEN (IF from < Len(buffer) THEN from ELSE Len(buffer))
     ELSE IF hits = {} THEN -1
     ELSE CHOOSE o \in hits : \A h \in hits : o <= h

Includes(buffer, pattern) == IndexOf(buffer, pattern, 0) # -1

\* Faulty variant of BufferCopy: source is repeated up to the end of target.
BufferCopyFill(source, target, pos) ==
  [i \in 1..Len(target) |->
     IF i - 1 >= pos /\ Len(source) > 0
     THEN source[((i - 1 - pos) % Len(source)) + 1] ELSE target[i]]

\* Faulty variant of BufferCopy: bytes of source that do not fit are appended.
BufferCopyGrowing(source, target, pos) ==
  LET end == IF pos + Len(source) > Len(target)
             THEN pos + Len(source) ELSE Len(target)
  IN [i \in 1..end |->
        IF i - 1 >= pos /\ i - 1 < pos + Len(source)
        THEN source[i - pos] ELSE target[i]]

\* source.copy(target, pos): overwrite target from offset pos with as many
\* bytes of source as fit; the target keeps its length.
BufferCopy(source, target, pos) ==
  [i \in 1..Len(target) |->
     IF i - 1 >= pos /\ i - 1 < pos + Len(source)
     THEN source[i - pos] ELSE target[i]]

\* Faulty variant of ScanFrom: the scan resumes one byte after a match.
RECURSIVE ScanFromOverlapping(_, _, _)
ScanFromOverlapping(buffer, pattern, pos) ==
  LET hit == IndexOf(buffer, pattern, pos)
  IN IF hit = -1 THEN <<>>
     ELSE <<hit>> \o ScanFromOverlapping(buffer, pattern, hit + 1)

\* The loop of findAllPositions from pos on: pos = buffer.indexOf(pattern,
\* pos), push, pos += pattern.length.
RECURSIVE ScanFrom(_, _, _)
ScanFrom(buffer, pattern, pos) ==
  LET hit == IndexOf(buffer, pattern, pos)
  IN IF hit = -1 THEN <<>>
     ELSE <<hit>> \o ScanFrom(buffer, pattern, hit + Len(pattern))

\* Faulty variant of findAllPositions: the scan stops at the first match.
findFirstPosition(buffer, pattern) ==
  IF IndexOf(buffer, pattern, 0) = -1 THEN <<>>
  ELSE <<IndexOf(buffer, pattern, 0)>>

\* findAllPositions(buffer, pattern): the call binds its two arguments once
\* and runs the scan loop from position 0.
findAllPositions(buffer, pattern) ==
  CHOOSE r \in {ScanFrom(b, p, 0) : b \in {buffer}, p \in {pattern}} : TRUE

\* ------------------------------------------------------------- descriptors
\* interface Patch: name, primary (pattern, replacement), further variants
\* and the optional regex fields (<<>> when absent).
Variant(p, r) == [pattern |-> p, replacement |-> r]

Patch(n, p, r, vs) ==
  [name |-> n, pattern |-> p, replacement |-> r, variants |-> vs,
   regexPattern |-> <<>>, regexReplacement |-> <<>>,
   alreadyPatchedRegexPattern |-> <<>>]

\* A regex is a sequence of atoms: a byte (literal) or Dot, the group `(.)`;
\* Dot and Ref are codes outside Bytes.
\* A regex replacement is a sequence of bytes and Ref, the reference `$1`.
Dot == 0
Ref == 10

RegexPatch(n, rx, rr, ap) ==
  [name |-> n, pattern |-> <<>>, replacement |-> <<>>, variants |-> <<>>,
   regexPattern |-> rx, regexReplacement |-> rr,
   alreadyPatchedRegexPattern |-> ap]

\* if (patch.regexPattern && patch.regexReplacement)
IsRegex(patch) == patch.regexPattern # <<>> /\ patch.regexReplacement # <<>>

\* Descriptors the caller may put in its list.
PatchCatalog ==
  { Patch("AtoB", <<1>>, <<2>>, <<>>),
    Patch("BtoC", <<2>>, <<3>>, <<>>),
    Patch("BtoA", <<2>>, <<1>>, <<>>),
    Patch("AorCtoB", <<1>>, <<2>>, <<Variant(<<3>>, <<2>>)>>),
    Patch("ABtoBA", <<1, 2>>, <<2, 1>>, <<>>),
    RegexPatch("RxAany", <<1, Dot>>, <<2, Ref>>, <<2, Dot>>) }

\* Descriptors whose replacement is longer or shorter than what it replaces
\* (the engine does not enforce equal lengths), next to two that keep it.
LengthCatalog ==
  { Patch("AtoBB", <<1>>, <<2, 2>>, <<>>),
    Patch("ABtoC", <<1, 2>>, <<3>>, <<>>),
    RegexPatch("RxCtoAB", <<3>>, <<1, 2>>, <<>>),
    RegexPatch("RxAanyToB", <<1, Dot>>, <<2>>, <<>>),
    Patch("AtoB", <<1>>, <<2>>, <<>>),
    RegexPatch("RxAany", <<1, Dot>>, <<2, Ref>>, <<2, Dot>>) }

\* Lists of at most max descriptors of catalog with distinct names.
ListsOf(catalog, max) ==
  UNION { { l \in [1..n -> catalog] :
              \A i, j \in 1..n : i # j => l[i].name # l[j].name }
          : n \in 0..max }

\* Descriptor lists: at most max descriptors with distinct names.
PatchLists(max) == ListsOf(PatchCatalog, max)

Buffers == UNION { [1..n -> Bytes] : n \in 0..MaxLen }

\* const variants = [{pattern, replacement}, ...(patch.variants || [])]
VariantsOf(patch) ==
  <<Variant(patch.pattern, patch.replacement)>> \o patch.variants

\* interface PatchResult; an absent alreadyPatched is FALSE, absent positions <<>>.
PatchResult(n, f, ps, s, ap) ==
  [name |-> n, found |-> f, positions |-> ps, success |-> s,
   alreadyPatched |-> ap]

\* ------------------------------------------------------------------- state
VARIABLES
  fs,             \* the file system: existing path -> bytes
  patches,        \* the descriptor list the caller built
  pc,             \* position of the patchDroid call
  opts,           \* PatchOptions of the call in progress
  buffer,         \* bytes read from inputPath
  workingBuffer,  \* mutable copy the descriptors are matched against
  results,        \* PatchResult[] built by the descriptor loop
  idx,            \* index of the next descriptor of the loop
  ret,            \* what the call returned or threw
  prev,           \* the caller's record of the previous call
  ncalls,         \* calls started so far
  actualOutputPath, \* the path the output was written to
  executable,     \* paths whose mode has the executable bits
  signed,         \* paths carrying an ad-hoc code signature
  platform,       \* os.platform() of the process
  faults,         \* whether file operations and codesign can fail
  scan,           \* a findAllPositions invocation on its own
  flags,          \* the patch flags of the command line
  meta,           \* the metadata saved for the alias
  cmd,            \* who calls patchDroid, and how far the command is
  search,         \* a search of the external-providers proxy
  proxy,          \* the native-provider proxy server and its last request
  orig            \* replaceOriginal / restoreOriginal calls on the droid binary

\* What neither patchDroid nor the command line tool changes.
auxVars == <<search, proxy, orig>>

\* What no step of patchDroid changes.
envVars == <<platform, faults, scan, flags, meta, cmd, search, proxy, orig>>

vars == <<fs, patches, pc, opts, buffer, workingBuffer, results, idx, ret,
          prev, ncalls, actualOutputPath, executable, signed, platform,
          faults, scan, flags, meta, cmd, search, proxy, orig>>

\* const IS_WINDOWS = platform() === "win32"
Platforms == {"win32", "darwin", "linux"}

IS_WINDOWS == platform = "win32"

NoOpts == [inputPath |-> NoPath, outputPath |-> NoPath, dryRun |-> FALSE,
           backup |-> FALSE]

NoRet == [kind |-> "none", success |-> FALSE, dryRun |-> FALSE,
          outputPath |-> NoPath, noPatchNeeded |-> FALSE, patchedCount |-> 0,
          results |-> <<>>, error |-> "none"]

NoPrev == [kind |-> "none", inputPath |-> NoPath, dryRun |-> FALSE,
           success |-> FALSE, outputPath |-> NoPath]

\* Faulty variant of finalOutputPath: the output always replaces the input.
finalOutputPathInPlace == opts.inputPath

\* const finalOutputPath = outputPath || `${inputPath}.patched`
finalOutputPath ==
  IF opts.outputPath # NoPath THEN opts.outputPath
  ELSE PatchedPath(opts.inputPath)

\* No findAllPositions invocation on its own.
NoScan == [buffer |-> <<>>, pattern |-> <<>>, positions |-> <<>>,
           pos |-> 0, returned |-> FALSE]

\* The options of the default command that select descriptors; an absent
\* --api-base is <<>>.  A text is the sequence of its characters.
NoFlags == [isCustom |-> FALSE, skipLogin |-> FALSE, apiBase |-> <<>>,
            websearch |-> FALSE, reasoningEffort |-> FALSE,
            noTelemetry |-> FALSE, autoHigh |-> FALSE]

\* No metadata file for the alias.
NoMeta == [saved |-> FALSE, patches |-> NoFlags]

\* No search in progress or completed.
NoSearch == [pc |-> "off", next |-> 1, called |-> <<>>, results |-> <<>>,
             source |-> "none"]

\* No proxy server.
NoProxy == [standalone |-> FALSE, served |-> 0, pathname |-> <<>>,
            method |-> "none", status |-> 0, body |-> "none",
            upstream |-> FALSE]

\* No replaceOriginal or restoreOriginal call is considered.
NoOrig == [replaced |-> 0, before |-> <<>>, fresh |-> FALSE,
           restored |-> FALSE, calls |-> 0]

\* The input file holds one of bufs, the caller has built its list, no call
\* has started.
InitOn(bufs, lists, platforms, faulty) ==
  /\ flags = NoFlags
  /\ meta = NoMeta
  /\ cmd = "lib"
  /\ search = NoSearch
  /\ proxy = NoProxy
  /\ orig = NoOrig
  /\ \E b \in bufs : fs = [p \in {DroidPath} |-> b]
  /\ patches \in lists
  /\ platform \in platforms
  /\ faults = faulty
  /\ actualOutputPath = NoPath
  /\ executable = {DroidPath}
  /\ signed = {}
  /\ scan = NoScan
  /\ pc = "idle"
  /\ opts = NoOpts
  /\ buffer = <<>>
  /\ workingBuffer = <<>>
  /\ results = <<>>
  /\ idx = 1
  /\ ret = NoRet
  /\ prev = NoPrev
  /\ ncalls = 0

InitWith(lists, platforms, faulty) == InitOn(Buffers, lists, platforms, faulty)

Init == InitWith(PatchLists(MaxSeqPatches), {"linux"}, FALSE)

InitCall == InitWith(PatchLists(MaxPatches), {"linux"}, FALSE)

\* A call with descriptors that do not keep the length of what they replace.
InitLength == InitWith(ListsOf(LengthCatalog, MaxPatches), {"linux"}, FALSE)

\* A call on any platform, on a file system whose operations can fail.
InitFault == InitWith(PatchLists(MaxSeqPatches), Platforms, TRUE)

\* ------------------------------------------------------- descriptor  loop
\* Faulty variant of MatchedVariantIndex: the loop over the variants has no
\* break, so the last variant whose pattern occurs is the matched one.
MatchedVariantIndexLast(buf, patch) ==
  LET vs == VariantsOf(patch)
      hits == {i \in 1..Len(vs) : findAllPositions(buf, vs[i].pattern) # <<>>}
  IN IF hits = {} THEN 0 ELSE CHOOSE i \in hits : \A h \in hits : i >= h

\* Index of the first variant whose pattern occurs in buf, 0 when none does
\* (the loop over variants that sets positions and matchedVariant).
MatchedVariantIndex(buf, patch) ==
  LET vs == VariantsOf(patch)
      hits == {i \in 1..Len(vs) : findAllPositions(buf, vs[i].pattern) # <<>>}
  IN IF hits = {} THEN 0 ELSE CHOOSE i \in hits : \A h \in hits : i <= h

\* Faulty variant of ApplyAt: only the first match is overwritten.
ApplyAtFirstOnly(buf, replacement, positions) ==
  IF positions = <<>> THEN buf
  ELSE BufferCopy(replacement, buf, Head(positions))

\* for (const pos of positions) replacement.copy(workingBuffer, pos)
RECURSIVE ApplyAt(_, _, _)
ApplyAt(buf, replacement, positions) ==
  IF positions = <<>> THEN buf
  ELSE ApplyAt(BufferCopy(replacement, buf, Head(positions)), replacement,
               Tail(positions))

\* totalReplacementPositions: occurrences of the replacements of vs[1..n].
RECURSIVE ReplacementPositions(_, _, _)
ReplacementPositions(buf, vs, n) ==
  IF n = 0 THEN 0
  ELSE ReplacementPositions(buf, vs, n - 1)
       + Len(findAllPositions(buf, vs[n].replacement))

\* Faulty variant of NotFoundResult: the record is pushed but never upgraded
\* when the replacement occurrences are counted.
NotFoundResultNoFixup(buf, patch) ==
  LET vs == VariantsOf(patch)
      included == \E i \in 1..Len(vs) : Includes(buf, vs[i].replacement)
  IN PatchResult(patch.name, 0, <<>>, FALSE, included)

\* The result pushed when no variant's pattern is found.
NotFoundResult(buf, patch) ==
  LET vs == VariantsOf(patch)
      included == \E i \in 1..Len(vs) : Includes(buf, vs[i].replacement)
      total == ReplacementPositions(buf, vs, Len(vs))
  IN PatchResult(patch.name, 0, <<>>, total > 0, included \/ total > 0)

\* The result pushed when the matched variant vs[m] is found.
FoundResult(buf, patch, m) ==
  LET positions == findAllPositions(buf, VariantsOf(patch)[m].pattern)
  IN PatchResult(patch.name, Len(positions), positions, TRUE, FALSE)

\* Faulty variant of PatchedBuffer: the edits are not applied inside the loop.
PatchedBufferDeferred(buf, patch, dryRun) == buf

\* Faulty variant of PatchedBuffer: the dryRun flag is not consulted.
PatchedBufferAlways(buf, patch, dryRun) ==
  LET m == MatchedVariantIndex(buf, patch)
  IN IF m = 0 THEN buf
     ELSE ApplyAt(buf, VariantsOf(patch)[m].replacement,
                  findAllPositions(buf, VariantsOf(patch)[m].pattern))

\* The working buffer after the loop body for one descriptor.
PatchedBuffer(buf, patch, dryRun) ==
  LET m == MatchedVariantIndex(buf, patch)
  IN IF m = 0 \/ dryRun THEN buf
     ELSE ApplyAt(buf, VariantsOf(patch)[m].replacement,
                  findAllPositions(buf, VariantsOf(patch)[m].pattern))

\* ------------------------------------------------------ regex descriptors
\* The buffer holds one-byte characters only, so workingBuffer.toString("utf-8")
\* has one character per byte and a character index is a byte offset.
RegexMatchesAt(content, rx, o) ==
  /\ o + Len(rx) <= Len(content)
  /\ \A k \in 1..Len(rx) : rx[k] = Dot \/ content[o + k] = rx[k]

\* regex.exec(content) with the g flag: the leftmost match at or after from.
RegexIndexOf(content, rx, from) ==
  LET hits == {o \in from..Len(content) : RegexMatchesAt(content, rx, o)}
  IN IF hits = {} THEN -1
     ELSE CHOOSE o \in hits : \A h \in hits : o <= h

RECURSIVE RegexScanFrom(_, _, _)
RegexScanFrom(content, rx, from) ==
  LET hit == RegexIndexOf(content, rx, from)
  IN IF hit = -1 THEN <<>>
     ELSE <<hit>> \o RegexScanFrom(content, rx, hit + Len(rx))

\* charIndex of every match of `while ((match = regex.exec(content)) !== null)`.
RegexMatches(content, rx) == RegexScanFrom(content, rx, 0)

\* match[0] of the match at charIndex o.
MatchText(content, rx, o) == SubSeq(content, o + 1, o + Len(rx))

\* match[0].replace(new RegExp(source), regexReplacement): $1 is the byte the
\* first group matched.
Expand(text, rx, rr) ==
  LET groups == {k \in 1..Len(rx) : rx[k] = Dot}
      g1 == CHOOSE k \in groups : \A h \in groups : k <= h
  IN [i \in 1..Len(rr) |->
        IF rr[i] = Ref /\ groups # {} THEN text[g1] ELSE rr[i]]

\* for (const {match, replacement} of matches): overwrite at
\* workingBuffer.indexOf(matchBuffer) when that is not -1.
RECURSIVE ApplyMatches(_, _, _, _, _)
ApplyMatches(buf, content, rx, rr, positions) ==
  IF positions = <<>> THEN buf
  ELSE LET text == MatchText(content, rx, Head(positions))
           bytePos == IndexOf(buf, text, 0)
           next == IF bytePos # -1
                   THEN BufferCopy(Expand(text, rx, rr), buf, bytePos)
                   ELSE buf
       IN ApplyMatches(next, content, rx, rr, Tail(positions))

\* Character that stands for a group reference in the fallback sample.
XByte == 3

\* regexReplacement.replace(/\$\d+/g, "X").slice(0, 20)
SampleReplacement(rr) ==
  [i \in 1..Len(rr) |-> IF rr[i] = Ref THEN XByte ELSE rr[i]]

\* Faulty variant of RegexAlreadyPatched: alreadyPatchedRegexPattern is not
\* consulted, only the sample of the replacement.
RegexAlreadyPatchedSample(content, patch) ==
  Includes(content, SampleReplacement(patch.regexReplacement))

\* alreadyPatched of the regex branch when the regex has no match.
RegexAlreadyPatched(content, patch) ==
  IF patch.alreadyPatchedRegexPattern # <<>>
  THEN RegexIndexOf(content, patch.alreadyPatchedRegexPattern, 0) # -1
  ELSE Includes(content, SampleReplacement(patch.regexReplacement))

\* Faulty variant of RegexResult: a regex without a match is reported without
\* success also when the binary is already patched.
RegexResultFailed(buf, patch) ==
  LET matches == RegexMatches(buf, patch.regexPattern)
      alreadyPatched == RegexAlreadyPatched(buf, patch)
  IN IF matches = <<>>
     THEN PatchResult(patch.name, 0, <<>>, FALSE, alreadyPatched)
     ELSE PatchResult(patch.name, Len(matches), matches, TRUE, FALSE)

\* The result pushed by the regex branch of the loop.
RegexResult(buf, patch) ==
  LET matches == RegexMatches(buf, patch.regexPattern)
      alreadyPatched == RegexAlreadyPatched(buf, patch)
  IN IF matches = <<>>
     THEN PatchResult(patch.name, 0, <<>>, alreadyPatched, alreadyPatched)
     ELSE PatchResult(patch.name, Len(matches), matches, TRUE, FALSE)

\* The working buffer after the regex branch of the loop.
RegexPatchedBuffer(buf, patch, dryRun) ==
  IF dryRun THEN buf
  ELSE ApplyMatches(buf, buf, patch.regexPattern, patch.regexReplacement,
                    RegexMatches(buf, patch.regexPattern))

\* ------------------------------------------------------------ verification
\* oldCount of the verification loop: occurrences of the patterns of vs[1..n].
RECURSIVE OldCount(_, _, _)
OldCount(buf, vs, n) ==
  IF n = 0 THEN 0
  ELSE OldCount(buf, vs, n - 1)
       + (IF Len(vs[n].pattern) > 0
          THEN Len(findAllPositions(buf, vs[n].pattern)) ELSE 0)

\* Faulty variant of Verified: only the primary pattern is counted.
VerifiedPrimaryOnly(buf, patch) ==
  IF IsRegex(patch)
  THEN Len(RegexMatches(buf, patch.regexPattern)) = 0
  ELSE Len(findAllPositions(buf, patch.pattern)) = 0

Verified(buf, patch) ==
  IF IsRegex(patch)
  THEN Len(RegexMatches(buf, patch.regexPattern)) = 0
  ELSE OldCount(buf, VariantsOf(patch), Len(VariantsOf(patch))) = 0

allVerified(buf, ps) == \A i \in 1..Len(ps) : Verified(buf, ps[i])

\* results.filter((r) => r.found > 0 && !r.alreadyPatched)
patchesNeeded(rs) ==
  {i \in 1..Len(rs) : rs[i].found > 0 /\ ~rs[i].alreadyPatched}

\* results.reduce((sum, r) => sum + (r.positions?.length || 0), 0)
RECURSIVE totalPatched(_, _)
totalPatched(rs, n) ==
  IF n = 0 THEN 0 ELSE totalPatched(rs, n - 1) + Len(rs[n].positions)

\* The result one loop iteration pushes for patch.
CheckResult(buf, patch) ==
  IF IsRegex(patch) THEN RegexResult(buf, patch)
  ELSE LET m == MatchedVariantIndex(buf, patch)
       IN IF m = 0 THEN NotFoundResult(buf, patch)
          ELSE FoundResult(buf, patch, m)

\* Faulty variant of CheckBuffer: a dry run edits the working buffer too.
CheckBufferLive(buf, patch, dryRun) ==
  IF IsRegex(patch) THEN RegexPatchedBuffer(buf, patch, FALSE)
  ELSE PatchedBuffer(buf, patch, FALSE)

\* The working buffer one loop iteration leaves for patch.
CheckBuffer(buf, patch, dryRun) ==
  IF IsRegex(patch) THEN RegexPatchedBuffer(buf, patch, dryRun)
  ELSE PatchedBuffer(buf, patch, dryRun)

\* Faulty variant of DryRunSuccess: already-patched descriptors are not accepted.
DryRunSuccessFoundOnly(rs) == \A i \in 1..Len(rs) : rs[i].found > 0

\* results.every((r) => r.success || r.alreadyPatched)
DryRunSuccess(rs) ==
  \A i \in 1..Len(rs) : rs[i].success \/ rs[i].alreadyPatched

\* Faulty variant of NotFoundError: a failure result is returned, not thrown.
NotFoundAsResult == [NoRet EXCEPT !.kind = "result"]

\* What patchDroid throws when the input file is missing.
NotFoundError ==
  [NoRet EXCEPT !.kind = "error", !.error = "Binary not found"]

\* Faulty variant of NoPatchResult: an empty result list is not "all patched".
NoPatchResultNonEmpty(rs, inputPath) ==
  LET allPatched == rs # <<>> /\ \A i \in 1..Len(rs) : rs[i].alreadyPatched
  IN IF allPatched
     THEN [NoRet EXCEPT !.kind = "result", !.success = TRUE,
                        !.outputPath = inputPath, !.results = rs,
                        !.noPatchNeeded = TRUE]
     ELSE [NoRet EXCEPT !.kind = "result", !.success = FALSE, !.results = rs]

\* The result returned when no descriptor needs patching.
NoPatchResult(rs, inputPath) ==
  LET allPatched == \A i \in 1..Len(rs) : rs[i].alreadyPatched
  IN IF allPatched
     THEN [NoRet EXCEPT !.kind = "result", !.success = TRUE,
                        !.outputPath = inputPath, !.results = rs,
                        !.noPatchNeeded = TRUE]
     ELSE [NoRet EXCEPT !.kind = "result", !.success = FALSE, !.results = rs]

\* Faulty variant of BackupNeeded: an existing backup is not looked for.
BackupAlways(files, o) == o.backup

\* backup && !existsSync(backupPath)
BackupNeeded(files, o) ==
  o.backup /\ ~existsSync(files, BackupPath(o.inputPath))

\* ----------------------------------------------------------------- actions
InputPaths == {DroidPath, PatchedPath(DroidPath)}

\* join(outputDir, alias) of the default command with -o.
OutputDirPath == <<"out", "alias">>

\* join(binsDir, `${meta.name}-patched`) of the update command.
BinsPath == <<"bins", "alias-patched">>

\* The options patchDroid is called with: by a caller of the library, by the
\* default command (--dry-run, --no-backup, -o), and by the update command.
CallOptions ==
  IF cmd = "lib"
  THEN { o \in [inputPath : InputPaths, outputPath : {NoPath} \cup InputPaths,
                dryRun : BOOLEAN, backup : BOOLEAN] :
           o.outputPath \in {NoPath, o.inputPath} }
  ELSE IF cmd = "create"
  THEN [inputPath : {DroidPath}, outputPath : {NoPath, OutputDirPath},
        dryRun : BOOLEAN, backup : BOOLEAN]
  ELSE IF cmd = "update"
  THEN [inputPath : {DroidPath}, outputPath : {BinsPath}, dryRun : {FALSE},
        backup : {FALSE}]
  ELSE {}

\* Entry of patchDroid: the options are bound, the input must exist, and the
\* file is read into buffer and workingBuffer.
PatchDroidEnter ==
  /\ pc = "idle"
  /\ ncalls < MaxCalls
  /\ \E o \in CallOptions :
         /\ opts' = o
         /\ IF ~existsSync(fs, o.inputPath)
            THEN /\ pc' = "threw"
                 /\ ret' = NotFoundError
                 /\ UNCHANGED <<buffer, workingBuffer>>
            ELSE /\ pc' = "loop"
                 /\ buffer' = fs[o.inputPath]
                 /\ workingBuffer' = fs[o.inputPath]
                 /\ ret' = NoRet
  /\ results' = <<>>
  /\ idx' = 1
  /\ ncalls' = ncalls + 1
  /\ actualOutputPath' = NoPath
  /\ UNCHANGED <<fs, patches, prev, executable, signed, envVars>>

\* positions after the loop over the variants: the matches of the matched
\* variant, or those of the last variant tried when no variant matched.
LoopPositions(buf, patch) ==
  LET vs == VariantsOf(patch)
      m == MatchedVariantIndex(buf, patch)
  IN findAllPositions(buf, vs[IF m = 0 THEN Len(vs) ELSE m].pattern)

\* if (!matchedVariant) throw new Error("Internal error: ..."), which is
\* reached with positions.length > 0 only.
InternalError(buf, patch) ==
  /\ ~IsRegex(patch)
  /\ LoopPositions(buf, patch) # <<>>
  /\ MatchedVariantIndex(buf, patch) = 0

\* Faulty variant of Thrown: the failure is returned as a result.
ThrownAsResult(message) ==
  [NoRet EXCEPT !.kind = "result", !.error = message]

\* An error other than the missing input that patchDroid throws or lets
\* through: its own internal error, or the error of a file operation.
Thrown(message) == [NoRet EXCEPT !.kind = "error", !.error = message]

\* One iteration of `for (const patch of patches)`.
CheckPatch ==
  /\ pc = "loop"
  /\ idx <= Len(patches)
  /\ IF InternalError(workingBuffer, patches[idx])
     THEN /\ pc' = "threw"
          /\ ret' = Thrown("Internal error")
          /\ UNCHANGED <<results, workingBuffer, idx>>
     ELSE /\ results' =
               Append(results, CheckResult(workingBuffer, patches[idx]))
          /\ workingBuffer' =
               CheckBuffer(workingBuffer, patches[idx], opts.dryRun)
          /\ idx' = idx + 1
          /\ UNCHANGED <<pc, ret>>
  /\ UNCHANGED <<fs, patches, opts, buffer, prev, ncalls,
                 actualOutputPath, executable, signed, envVars>>

\* if (dryRun) return {success: results.every(...), dryRun: true, results}
DryRunReturn ==
  /\ pc = "loop"
  /\ idx > Len(patches)
  /\ opts.dryRun
  /\ ret' = [NoRet EXCEPT
               !.kind = "result",
               !.success = DryRunSuccess(results),
               !.dryRun = TRUE,
               !.results = results]
  /\ pc' = "done"
  /\ UNCHANGED <<fs, patches, opts, buffer, workingBuffer, results, idx, prev,
                 ncalls, actualOutputPath, executable, signed, envVars>>

\* if (patchesNeeded.length === 0) return ...
NoPatchReturn ==
  /\ pc = "loop"
  /\ idx > Len(patches)
  /\ ~opts.dryRun
  /\ patchesNeeded(results) = {}
  /\ ret' = NoPatchResult(results, opts.inputPath)
  /\ pc' = "done"
  /\ UNCHANGED <<fs, patches, opts, buffer, workingBuffer, results, idx, prev,
                 ncalls, actualOutputPath, executable, signed, envVars>>

\* Outcomes of chmod, readFile and codesign: done or failed.
Outcomes == IF faults THEN BOOLEAN ELSE {TRUE}

\* if (backup) { if (!existsSync(backupPath)) await copyFile(inputPath, backupPath) }
\* copyFile gives the copy the mode of its source.
Backup ==
  /\ pc = "loop"
  /\ idx > Len(patches)
  /\ ~opts.dryRun
  /\ patchesNeeded(results) # {}
  /\ \E copyOk \in Outcomes :
       LET copied == BackupNeeded(fs, opts) /\ copyOk
           failed == BackupNeeded(fs, opts) /\ ~copyOk
       IN /\ fs' = IF copied
                   THEN copyFile(fs, opts.inputPath, BackupPath(opts.inputPath))
                   ELSE fs
          /\ executable' = IF copied /\ opts.inputPath \in executable
                           THEN executable \cup {BackupPath(opts.inputPath)}
                           ELSE executable
          /\ pc' = IF failed THEN "threw" ELSE "write"
          /\ ret' = IF failed THEN Thrown("ENOSPC") ELSE ret
  /\ UNCHANGED <<patches, opts, buffer, workingBuffer, results, idx, prev,
                 ncalls, actualOutputPath, signed, envVars>>

\* Outcomes of a writeFile: done, destination locked, permission denied, no
\* space left while writing.
WriteCodes == IF faults THEN {"ok", "EBUSY", "EACCES", "ENOSPC"} ELSE {"ok"}

\* Values of Date.now() as they appear in a file name.
Timestamps == {"-1", "-2"}

\* p without its last component when that component is one of names.
StripLast(p, names) ==
  IF p # <<>> /\ p[Len(p)] \in names THEN SubSeq(p, 1, Len(p) - 1) ELSE p

\* `${basePath}-${timestamp}${ext ? ext : ".patched"}` where basePath is
\* finalOutputPath without a final .exe, then .patched, then -<digits>.
FallbackPath(p, timestamp) ==
  LET ext == IF p # <<>> /\ p[Len(p)] = "exe" THEN "exe" ELSE "patched"
      basePath == StripLast(StripLast(StripLast(p, {"exe"}), {"patched"}),
                            Timestamps)
  IN basePath \o <<timestamp, ext>>

\* Faulty variant of UseFallback: no alternate path is tried.
UseFallbackNever(code) == FALSE

\* if (err.code === "EBUSY" && IS_WINDOWS)
UseFallback(code) == code = "EBUSY" /\ IS_WINDOWS

\* await writeFile(finalOutputPath, workingBuffer), on EBUSY under Windows
\* await writeFile(actualOutputPath, workingBuffer) with the timestamped name,
\* then await chmod(actualOutputPath, 0o755).  A file can only be locked when
\* it exists; a write that is refused (EBUSY, EACCES) leaves the files as they
\* were, a write that runs out of space has opened and truncated its
\* destination and leaves the first cut bytes in it.
WriteOutput ==
  /\ pc = "write"
  /\ \E code \in WriteCodes, timestamp \in Timestamps,
        code2 \in WriteCodes \ {"EBUSY"}, chmodOk \in Outcomes,
        cut \in 0..Len(workingBuffer) :
       LET target == IF UseFallback(code)
                     THEN FallbackPath(finalOutputPath, timestamp)
                     ELSE finalOutputPath
           written == code = "ok" \/ (UseFallback(code) /\ code2 = "ok")
           partial == code = "ENOSPC" \/ (UseFallback(code) /\ code2 = "ENOSPC")
       IN /\ code = "EBUSY" => existsSync(fs, finalOutputPath)
          /\ partial => cut < Len(workingBuffer)
          /\ actualOutputPath' = target
          /\ fs' = IF written THEN writeFile(fs, target, workingBuffer)
                   ELSE IF partial
                   THEN writeFile(fs, target, SubSeq(workingBuffer, 1, cut))
                   ELSE fs
          /\ signed' = IF written \/ partial THEN signed \ {target} ELSE signed
          /\ executable' = IF written /\ chmodOk
                           THEN executable \cup {target} ELSE executable
          /\ pc' = IF written /\ chmodOk THEN "verify" ELSE "threw"
          /\ ret' = IF written /\ chmodOk THEN ret
                    ELSE IF written THEN Thrown("EPERM")
                    ELSE IF UseFallback(code) THEN Thrown(code2)
                    ELSE Thrown(code)
  /\ UNCHANGED <<patches, opts, buffer, workingBuffer, results, idx, prev,
                 ncalls, envVars>>

\* Re-read the output, verify every descriptor, re-sign finalOutputPath on
\* macOS (a failure of codesign is caught) and return.  A failing readFile
\* is not caught.
VerifyReturn ==
  /\ pc = "verify"
  /\ \E readOk \in Outcomes, signOk \in Outcomes :
       IF readOk
       THEN /\ LET verifyBuffer == fs[actualOutputPath]
               IN ret' = [NoRet EXCEPT
                            !.kind = "result",
                            !.success = allVerified(verifyBuffer, patches),
                            !.outputPath = actualOutputPath,
                            !.results = results,
                            !.patchedCount =
                               totalPatched(results, Len(results))]
            /\ signed' = IF platform = "darwin" /\ signOk
                         THEN signed \cup {finalOutputPath} ELSE signed
            /\ pc' = "done"
       ELSE /\ ret' = Thrown("EIO")
            /\ signed' = signed
            /\ pc' = "threw"
  /\ UNCHANGED <<fs, patches, opts, buffer, workingBuffer, results, idx, prev,
                 ncalls, actualOutputPath, executable, envVars>>

\* The caller receives the result (or the error) and keeps what it needs.
AwaitResult ==
  /\ pc \in {"done", "threw"}
  /\ prev' = [kind |-> ret.kind, inputPath |-> opts.inputPath,
              dryRun |-> opts.dryRun, success |-> ret.success,
              outputPath |-> ret.outputPath]
  /\ pc' = "idle"
  /\ opts' = NoOpts
  /\ buffer' = <<>>
  /\ workingBuffer' = <<>>
  /\ results' = <<>>
  /\ idx' = 1
  /\ ret' = NoRet
  /\ actualOutputPath' = NoPath
  /\ UNCHANGED <<fs, patches, ncalls, executable, signed, envVars>>

Next ==
  \/ PatchDroidEnter
  \/ CheckPatch
  \/ DryRunReturn
  \/ NoPatchReturn
  \/ Backup
  \/ WriteOutput
  \/ VerifyReturn
  \/ AwaitResult

\* A sequence of patchDroid calls with one descriptor list.
Spec == Init /\ [][Next]_vars

\* One patchDroid call, up to its return or throw.
NextCall ==
  \/ PatchDroidEnter
  \/ CheckPatch
  \/ DryRunReturn
  \/ NoPatchReturn
  \/ Backup
  \/ WriteOutput
  \/ VerifyReturn

CallSpec == InitCall /\ [][NextCall]_vars

\* One patchDroid call with descriptors of unequal lengths.
LengthSpec == InitLength /\ [][NextCall]_vars

\* One patchDroid call where file operations can fail.
FaultSpec == InitFault /\ [][NextCall]_vars

\* ------------------------------------------- findAllPositions on its own
ScanBuffers == UNION { [1..n -> Bytes] : n \in 0..MaxScanLen }

ScanPatterns == UNION { [1..n -> Bytes] : n \in 1..MaxPatternLen }

\* A caller holds a buffer and a non-empty pattern.
InitScan ==
  /\ fs = [p \in {DroidPath} |-> <<>>]
  /\ patches = <<>>
  /\ pc = "idle"
  /\ opts = NoOpts
  /\ buffer = <<>>
  /\ workingBuffer = <<>>
  /\ results = <<>>
  /\ idx = 1
  /\ ret = NoRet
  /\ prev = NoPrev
  /\ ncalls = 0
  /\ actualOutputPath = NoPath
  /\ executable = {DroidPath}
  /\ signed = {}
  /\ platform = "linux"
  /\ faults = FALSE
  /\ flags = NoFlags
  /\ meta = NoMeta
  /\ cmd = "lib"
  /\ search = NoSearch
  /\ proxy = NoProxy
  /\ orig = NoOrig
  /\ \E b \in ScanBuffers, p \in ScanPatterns :
       scan = [buffer |-> b, pattern |-> p, positions |-> <<>>,
               pos |-> 0, returned |-> FALSE]

\* positions = findAllPositions(buffer, pattern)
ScanCall ==
  /\ ~scan.returned
  /\ scan.pattern # <<>>
  /\ scan' = [scan EXCEPT
                !.positions = findAllPositions(scan.buffer, scan.pattern),
                !.returned = TRUE]
  /\ UNCHANGED <<fs, patches, pc, opts, buffer, workingBuffer, results, idx,
                 ret, prev, ncalls, actualOutputPath, executable, signed,
                 platform, faults, flags, meta, cmd, auxVars>>

NextScan == ScanCall

ScanSpec == InitScan /\ [][NextScan]_vars

\* ------------------------------------------------- the command line tool
\* Values given to --api-base: short, with one trailing slash, with two
\* trailing slashes (23 characters, 21 without them), and too long.
ApiBases ==
  { <<"h", "t", "t", "p", ":", "/", "/", "l", "o", "c", "a", "l", "h", "o",
      "s", "t", ":", "8", "0">>,
    <<"h", "t", "t", "p", ":", "/", "/", "l", "o", "c", "a", "l", "h", "o",
      "s", "t", ":", "8", "0", "/">>,
    <<"h", "t", "t", "p", ":", "/", "/", "1", "2", "7", ".", "0", ".", "0",
      ".", "1", ":", "3", "0", "0", "0", "/", "/">>,
    <<"h", "t", "t", "p", ":", "/", "/", "m", "y", "-", "l", "o", "n", "g",
      "-", "d", "o", "m", "a", "i", "n", ".", "c", "o", "m", ":", "3", "0",
      "0", "0">> }

FlagSets ==
  [isCustom : BOOLEAN, skipLogin : BOOLEAN, apiBase : ApiBases \cup {<<>>},
   websearch : BOOLEAN, reasoningEffort : BOOLEAN, noTelemetry : BOOLEAN,
   autoHigh : BOOLEAN]

\* const originalUrl = "https://api.factory.ai"
originalUrl ==
  <<"h", "t", "t", "p", "s", ":", "/", "/", "a", "p", "i", ".", "f", "a",
    "c", "t", "o", "r", "y", ".", "a", "i">>

\* apiBase.replace(/\/+$/, "")
RECURSIVE StripTrailingSlashes(_)
StripTrailingSlashes(url) ==
  IF url # <<>> /\ url[Len(url)] = "/"
  THEN StripTrailingSlashes(SubSeq(url, 1, Len(url) - 1))
  ELSE url

\* str.padEnd(n, " ")
PadEnd(str, n) ==
  IF Len(str) >= n THEN str ELSE str \o [i \in 1..(n - Len(str)) |-> " "]

\* The descriptors of the default command.
\* isCustom:!0 -> isCustom:!1
CreateIsCustom ==
  Patch("isCustom",
        <<"i", "s", "C", "u", "s", "t", "o", "m", ":", "!", "0">>,
        <<"i", "s", "C", "u", "s", "t", "o", "m", ":", "!", "1">>,
        <<>>)

\* process.env.FACTORY_API_KEY -> "fk-droid-patch-skip-00000"
CreateSkipLogin ==
  Patch("skipLogin",
        <<"p", "r", "o", "c", "e", "s", "s", ".", "e", "n", "v", ".", "F",
          "A", "C", "T", "O", "R", "Y", "_", "A", "P", "I", "_", "K", "E",
          "Y">>,
        <<"\"", "f", "k", "-", "d", "r", "o", "i", "d", "-", "p", "a", "t",
          "c", "h", "-", "s", "k", "i", "p", "-", "0", "0", "0", "0", "0",
          "\"">>,
        <<>>)

\* pattern: "https://api.factory.ai"; replacement: paddedUrl
CreateApiBase(paddedUrl) ==
  Patch("apiBase",
        <<"h", "t", "t", "p", "s", ":", "/", "/", "a", "p", "i", ".", "f",
          "a", "c", "t", "o", "r", "y", ".", "a", "i">>,
        paddedUrl, <<>>)

\* supportedReasoningEfforts:["none"] -> supportedReasoningEfforts:["high"]
CreateReasoningEffortSupported ==
  Patch("reasoningEffortSupported",
        <<"s", "u", "p", "p", "o", "r", "t", "e", "d", "R", "e", "a", "s",
          "o", "n", "i", "n", "g", "E", "f", "f", "o", "r", "t", "s", ":",
          "[", "\"", "n", "o", "n", "e", "\"", "]">>,
        <<"s", "u", "p", "p", "o", "r", "t", "e", "d", "R", "e", "a", "s",
          "o", "n", "i", "n", "g", "E", "f", "f", "o", "r", "t", "s", ":",
          "[", "\"", "h", "i", "g", "h", "\"", "]">>,
        <<>>)

\* defaultReasoningEffort:"none" -> defaultReasoningEffort:"high"
CreateReasoningEffortDefault ==
  Patch("reasoningEffortDefault",
        <<"d", "e", "f", "a", "u", "l", "t", "R", "e", "a", "s", "o", "n",
          "i", "n", "g", "E", "f", "f", "o", "r", "t", ":", "\"", "n", "o",
          "n", "e", "\"">>,
        <<"d", "e", "f", "a", "u", "l", "t", "R", "e", "a", "s", "o", "n",
          "i", "n", "g", "E", "f", "f", "o", "r", "t", ":", "\"", "h", "i",
          "g", "h", "\"">>,
        <<>>)

\* supportedReasoningEfforts.length>1 -> supportedReasoningEfforts.length>0
CreateReasoningEffortUIShow ==
  Patch("reasoningEffortUIShow",
        <<"s", "u", "p", "p", "o", "r", "t", "e", "d", "R", "e", "a", "s",
          "o", "n", "i", "n", "g", "E", "f", "f", "o", "r", "t", "s", ".",
          "l", "e", "n", "g", "t", "h", ">", "1">>,
        <<"s", "u", "p", "p", "o", "r", "t", "e", "d", "R", "e", "a", "s",
          "o", "n", "i", "n", "g", "E", "f", "f", "o", "r", "t", "s", ".",
          "l", "e", "n", "g", "t", "h", ">", "0">>,
        <<>>)

\* supportedReasoningEfforts.length<=1 -> supportedReasoningEfforts.length<=0
CreateReasoningEffortUIEnable ==
  Patch("reasoningEffortUIEnable",
        <<"s", "u", "p", "p", "o", "r", "t", "e", "d", "R", "e", "a", "s",
          "o", "n", "i", "n", "g", "E", "f", "f", "o", "r", "t", "s", ".",
          "l", "e", "n", "g", "t", "h", "<", "=", "1">>,
        <<"s", "u", "p", "p", "o", "r", "t", "e", "d", "R", "e", "a", "s",
          "o", "n", "i", "n", "g", "E", "f", "f", "o", "r", "t", "s", ".",
          "l", "e", "n", "g", "t", "h", "<", "=", "0">>,
        <<>>)

\* T!=="none"&&T!=="off"&&!W.supportedReasoningEfforts.includes(T) -> T!="none"&&T!="off"&&0&&W.supportedReasoningEfforts.includes(T)
CreateReasoningEffortValidationBypass ==
  Patch("reasoningEffortValidationBypass",
        <<"T", "!", "=", "=", "\"", "n", "o", "n", "e", "\"", "&", "&", "T",
          "!", "=", "=", "\"", "o", "f", "f", "\"", "&", "&", "!", "W", ".",
          "s", "u", "p", "p", "o", "r", "t", "e", "d", "R", "e", "a", "s",
          "o", "n", "i", "n", "g", "E", "f", "f", "o", "r", "t", "s", ".",
          "i", "n", "c", "l", "u", "d", "e", "s", "(", "T", ")">>,
        <<"T", "!", "=", "\"", "n", "o", "n", "e", "\"", "&", "&", "T", "!",
          "=", "\"", "o", "f", "f", "\"", "&", "&", "0", "&", "&", "W", ".",
          "s", "u", "p", "p", "o", "r", "t", "e", "d", "R", "e", "a", "s",
          "o", "n", "i", "n", "g", "E", "f", "f", "o", "r", "t", "s", ".",
          "i", "n", "c", "l", "u", "d", "e", "s", "(", "T", ")">>,
        <<>>)

\* ENABLE_SENTRY -> XNABLE_SENTRY
CreateNoTelemetrySentryEnv1 ==
  Patch("noTelemetrySentryEnv1",
        <<"E", "N", "A", "B", "L", "E", "_", "S", "E", "N", "T", "R", "Y">>,
        <<"X", "N", "A", "B", "L", "E", "_", "S", "E", "N", "T", "R", "Y">>,
        <<>>)

\* VITE_VERCEL_ENV -> XITE_VERCEL_ENV
CreateNoTelemetrySentryEnv2 ==
  Patch("noTelemetrySentryEnv2",
        <<"V", "I", "T", "E", "_", "V", "E", "R", "C", "E", "L", "_", "E",
          "N", "V">>,
        <<"X", "I", "T", "E", "_", "V", "E", "R", "C", "E", "L", "_", "E",
          "N", "V">>,
        <<>>)

\* this.webEvents.length===0 -> !0||this.webEvents.length
CreateNoTelemetryFlushBlock ==
  Patch("noTelemetryFlushBlock",
        <<"t", "h", "i", "s", ".", "w", "e", "b", "E", "v", "e", "n", "t",
          "s", ".", "l", "e", "n", "g", "t", "h", "=", "=", "=", "0">>,
        <<"!", "0", "|", "|", "t", "h", "i", "s", ".", "w", "e", "b", "E",
          "v", "e", "n", "t", "s", ".", "l", "e", "n", "g", "t", "h">>,
        <<>>)

\* getCurrentAutonomyMode(){return this.autonomyMode} -> getCurrentAutonomyMode(){return"auto-high"       }
CreateAutoHighAutonomy ==
  Patch("autoHighAutonomy",
        <<"g", "e", "t", "C", "u", "r", "r", "e", "n", "t", "A", "u", "t",
          "o", "n", "o", "m", "y", "M", "o", "d", "e", "(", ")", "{", "r",
          "e", "t", "u", "r", "n", " ", "t", "h", "i", "s", ".", "a", "u",
          "t", "o", "n", "o", "m", "y", "M", "o", "d", "e", "}">>,
        <<"g", "e", "t", "C", "u", "r", "r", "e", "n", "t", "A", "u", "t",
          "o", "n", "o", "m", "y", "M", "o", "d", "e", "(", ")", "{", "r",
          "e", "t", "u", "r", "n", "\"", "a", "u", "t", "o", "-", "h", "i",
          "g", "h", "\"", " ", " ", " ", " ", " ", " ", " ", "}">>,
        <<>>)

\* !needsBinaryPatch && websearch: only the wrapper is set up.
WrapperOnly(f) ==
  /\ f.websearch
  /\ ~f.isCustom /\ ~f.skipLogin /\ ~f.reasoningEffort /\ ~f.noTelemetry
  /\ ~f.autoHigh

\* No patch flag at all: the usage is printed.
NoPatchFlags(f) ==
  /\ ~f.isCustom /\ ~f.skipLogin /\ f.apiBase = <<>> /\ ~f.websearch
  /\ ~f.reasoningEffort /\ ~f.noTelemetry /\ ~f.autoHigh

\* if (normalizedUrl.length > originalLength) ... process.exit(1)
ApiBaseTooLong(f) ==
  /\ f.apiBase # <<>> /\ ~f.websearch
  /\ Len(StripTrailingSlashes(f.apiBase)) > Len(originalUrl)

Only(cond, ps) == IF cond THEN ps ELSE <<>>

\* const patches: Patch[] = [] and the pushes of the default command.
CreatePatches(f) ==
  Only(f.isCustom, <<CreateIsCustom>>)
  \o Only(f.skipLogin, <<CreateSkipLogin>>)
  \o Only(f.apiBase # <<>> /\ ~f.websearch,
          <<CreateApiBase(PadEnd(StripTrailingSlashes(f.apiBase),
                                 Len(originalUrl)))>>)
  \o Only(f.reasoningEffort,
          <<CreateReasoningEffortSupported, CreateReasoningEffortDefault,
            CreateReasoningEffortUIShow, CreateReasoningEffortUIEnable,
            CreateReasoningEffortValidationBypass>>)
  \o Only(f.noTelemetry,
          <<CreateNoTelemetrySentryEnv1, CreateNoTelemetrySentryEnv2,
            CreateNoTelemetryFlushBlock>>)
  \o Only(f.autoHigh, <<CreateAutoHighAutonomy>>)

\* The patches object given to createMetadata after a patchDroid call.
Metadata(f) ==
  [saved |-> TRUE,
   patches |-> [isCustom |-> f.isCustom, skipLogin |-> f.skipLogin,
                apiBase |-> f.apiBase, websearch |-> f.websearch,
                reasoningEffort |-> f.reasoningEffort,
                noTelemetry |-> f.noTelemetry, autoHigh |-> f.autoHigh]]

\* The patches object given to createMetadata in the wrapper-only mode.
WrapperMetadata(f) ==
  [saved |-> TRUE,
   patches |-> [NoFlags EXCEPT !.apiBase = f.apiBase,
                               !.websearch = f.websearch]]

\* The descriptors of the update command.
\* isCustom:!0 -> isCustom:!1
UpdateIsCustom ==
  Patch("isCustom",
        <<"i", "s", "C", "u", "s", "t", "o", "m", ":", "!", "0">>,
        <<"i", "s", "C", "u", "s", "t", "o", "m", ":", "!", "1">>,
        <<>>)

\* process.env.FACTORY_API_KEY -> "fk-droid-patch-skip-00000"
UpdateSkipLogin ==
  Patch("skipLogin",
        <<"p", "r", "o", "c", "e", "s", "s", ".", "e", "n", "v", ".", "F",
          "A", "C", "T", "O", "R", "Y", "_", "A", "P", "I", "_", "K", "E",
          "Y">>,
        <<"\"", "f", "k", "-", "d", "r", "o", "i", "d", "-", "p", "a", "t",
          "c", "h", "-", "s", "k", "i", "p", "-", "0", "0", "0", "0", "0",
          "\"">>,
        <<>>)

\* pattern: "https://api.factory.ai"; replacement: paddedUrl
UpdateApiBase(paddedUrl) ==
  Patch("apiBase",
        <<"h", "t", "t", "p", "s", ":", "/", "/", "a", "p", "i", ".", "f",
          "a", "c", "t", "o", "r", "y", ".", "a", "i">>,
        paddedUrl, <<>>)

\* supportedReasoningEfforts:["none"] -> supportedReasoningEfforts:["high"]
UpdateReasoningEffortSupported ==
  Patch("reasoningEffortSupported",
        <<"s", "u", "p", "p", "o", "r", "t", "e", "d", "R", "e", "a", "s",
          "o", "n", "i", "n", "g", "E", "f", "f", "o", "r", "t", "s", ":",
          "[", "\"", "n", "o", "n", "e", "\"", "]">>,
        <<"s", "u", "p", "p", "o", "r", "t", "e", "d", "R", "e", "a", "s",
          "o", "n", "i", "n", "g", "E", "f", "f", "o", "r", "t", "s", ":",
          "[", "\"", "h", "i", "g", "h", "\"", "]">>,
        <<>>)

\* defaultReasoningEffort:"none" -> defaultReasoningEffort:"high"
UpdateReasoningEffortDefault ==
  Patch("reasoningEffortDefault",
        <<"d", "e", "f", "a", "u", "l", "t", "R", "e", "a", "s", "o", "n",
          "i", "n", "g", "E", "f", "f", "o", "r", "t", ":", "\"", "n", "o",
          "n", "e", "\"">>,
        <<"d", "e", "f", "a", "u", "l", "t", "R", "e", "a", "s", "o", "n",
          "i", "n", "g", "E", "f", "f", "o", "r", "t", ":", "\"", "h", "i",
          "g", "h", "\"">>,
        <<>>)

\* supportedReasoningEfforts.length>1 -> supportedReasoningEfforts.length>0
UpdateReasoningEffortUIShow ==
  Patch("reasoningEffortUIShow",
        <<"s", "u", "p", "p", "o", "r", "t", "e", "d", "R", "e", "a", "s",
          "o", "n", "i", "n", "g", "E", "f", "f", "o", "r", "t", "s", ".",
          "l", "e", "n", "g", "t", "h", ">", "1">>,
        <<"s", "u", "p", "p", "o", "r", "t", "e", "d", "R", "e", "a", "s",
          "o", "n", "i", "n", "g", "E", "f", "f", "o", "r", "t", "s", ".",
          "l", "e", "n", "g", "t", "h", ">", "0">>,
        <<>>)

\* supportedReasoningEfforts.length<=1 -> supportedReasoningEfforts.length<=0
UpdateReasoningEffortUIEnable ==
  Patch("reasoningEffortUIEnable",
        <<"s", "u", "p", "p", "o", "r", "t", "e", "d", "R", "e", "a", "s",
          "o", "n", "i", "n", "g", "E", "f", "f", "o", "r", "t", "s", ".",
          "l", "e", "n", "g", "t", "h", "<", "=", "1">>,
        <<"s", "u", "p", "p", "o", "r", "t", "e", "d", "R", "e", "a", "s",
          "o", "n", "i", "n", "g", "E", "f", "f", "o", "r", "t", "s", ".",
          "l", "e", "n", "g", "t", "h", "<", "=", "0">>,
        <<>>)

\* T!=="none"&&T!=="off"&&!W.supportedReasoningEfforts.includes(T) -> T!="none"&&T!="off"&&0&&W.supportedReasoningEfforts.includes(T)
UpdateReasoningEffortValidationBypass ==
  Patch("reasoningEffortValidationBypass",
        <<"T", "!", "=", "=", "\"", "n", "o", "n", "e", "\"", "&", "&", "T",
          "!", "=", "=", "\"", "o", "f", "f", "\"", "&", "&", "!", "W", ".",
          "s", "u", "p", "p", "o", "r", "t", "e", "d", "R", "e", "a", "s",
          "o", "n", "i", "n", "g", "E", "f", "f", "o", "r", "t", "s", ".",
          "i", "n", "c", "l", "u", "d", "e", "s", "(", "T", ")">>,
        <<"T", "!", "=", "\"", "n", "o", "n", "e", "\"", "&", "&", "T", "!",
          "=", "\"", "o", "f", "f", "\"", "&", "&", "0", "&", "&", "W", ".",
          "s", "u", "p", "p", "o", "r", "t", "e", "d", "R", "e", "a", "s",
          "o", "n", "i", "n", "g", "E", "f", "f", "o", "r", "t", "s", ".",
          "i", "n", "c", "l", "u", "d", "e", "s", "(", "T", ")">>,
        <<>>)

\* ENABLE_SENTRY -> XNABLE_SENTRY
UpdateNoTelemetrySentryEnv1 ==
  Patch("noTelemetrySentryEnv1",
        <<"E", "N", "A", "B", "L", "E", "_", "S", "E", "N", "T", "R", "Y">>,
        <<"X", "N", "A", "B", "L", "E", "_", "S", "E", "N", "T", "R", "Y">>,
        <<>>)

\* VITE_VERCEL_ENV -> XITE_VERCEL_ENV
UpdateNoTelemetrySentryEnv2 ==
  Patch("noTelemetrySentryEnv2",
        <<"V", "I", "T", "E", "_", "V", "E", "R", "C", "E", "L", "_", "E",
          "N", "V">>,
        <<"X", "I", "T", "E", "_", "V", "E", "R", "C", "E", "L", "_", "E",
          "N", "V">>,
        <<>>)

\* this.webEvents.length===0 -> !0||this.webEvents.length
UpdateNoTelemetryFlushBlock ==
  Patch("noTelemetryFlushBlock",
        <<"t", "h", "i", "s", ".", "w", "e", "b", "E", "v", "e", "n", "t",
          "s", ".", "l", "e", "n", "g", "t", "h", "=", "=", "=", "0">>,
        <<"!", "0", "|", "|", "t", "h", "i", "s", ".", "w", "e", "b", "E",
          "v", "e", "n", "t", "s", ".", "l", "e", "n", "g", "t", "h">>,
        <<>>)

\* getCurrentAutonomyMode(){return this.autonomyMode} -> getCurrentAutonomyMode(){return"auto-high"       }
UpdateAutoHighAutonomy ==
  Patch("autoHighAutonomy",
        <<"g", "e", "t", "C", "u", "r", "r", "e", "n", "t", "A", "u", "t",
          "o", "n", "o", "m", "y", "M", "o", "d", "e", "(", ")", "{", "r",
          "e", "t", "u", "r", "n", " ", "t", "h", "i", "s", ".", "a", "u",
          "t", "o", "n", "o", "m", "y", "M", "o", "d", "e", "}">>,
        <<"g", "e", "t", "C", "u", "r", "r", "e", "n", "t", "A", "u", "t",
          "o", "n", "o", "m", "y", "M", "o", "d", "e", "(", ")", "{", "r",
          "e", "t", "u", "r", "n", "\"", "a", "u", "t", "o", "-", "h", "i",
          "g", "h", "\"", " ", " ", " ", " ", " ", " ", " ", "}">>,
        <<>>)

\* const patches: Patch[] = [] and the pushes of the update command, from
\* the saved meta.patches.
UpdatePatches(m) ==
  Only(m.isCustom, <<UpdateIsCustom>>)
  \o Only(m.skipLogin, <<UpdateSkipLogin>>)
  \o Only(m.apiBase # <<>> /\ ~m.websearch,
          <<UpdateApiBase(PadEnd(m.apiBase, Len(originalUrl)))>>)
  \o Only(m.reasoningEffort,
          <<UpdateReasoningEffortSupported, UpdateReasoningEffortDefault,
            UpdateReasoningEffortUIShow, UpdateReasoningEffortUIEnable,
            UpdateReasoningEffortValidationBypass>>)
  \o Only(m.noTelemetry,
          <<UpdateNoTelemetrySentryEnv1, UpdateNoTelemetrySentryEnv2,
            UpdateNoTelemetryFlushBlock>>)
  \o Only(m.autoHigh, <<UpdateAutoHighAutonomy>>)

\* Droid binaries: without any pattern, with the isCustom pattern only, and
\* with the isCustom pattern, the API URL and ENABLE_SENTRY.
DroidBinaries ==
  { <<"x">>,
    CreateIsCustom.pattern \o <<";">>,
    CreateIsCustom.pattern \o <<";">> \o originalUrl \o <<";">>
      \o CreateNoTelemetrySentryEnv1.pattern }

\* The command line is given, the droid binary is installed, no alias yet.
InitCli ==
  /\ \E b \in DroidBinaries : fs = [p \in {DroidPath} |-> b]
  /\ flags \in FlagSets
  /\ meta = NoMeta
  /\ cmd = "start"
  /\ search = NoSearch
  /\ proxy = NoProxy
  /\ orig = NoOrig
  /\ patches = <<>>
  /\ pc = "idle"
  /\ opts = NoOpts
  /\ buffer = <<>>
  /\ workingBuffer = <<>>
  /\ results = <<>>
  /\ idx = 1
  /\ ret = NoRet
  /\ prev = NoPrev
  /\ ncalls = 0
  /\ actualOutputPath = NoPath
  /\ executable = {DroidPath}
  /\ signed = {}
  /\ platform = "linux"
  /\ faults = FALSE
  /\ scan = NoScan

\* The default command up to its patchDroid call: wrapper-only mode saves
\* the metadata at once, a command line without patch flags or with too long
\* an API URL exits, otherwise the descriptor list is built.
DefaultAction ==
  /\ cmd = "start"
  /\ search = NoSearch
  /\ proxy = NoProxy
  /\ orig = NoOrig
  /\ IF WrapperOnly(flags)
     THEN /\ meta' = WrapperMetadata(flags)
          /\ cmd' = "exited"
          /\ patches' = patches
     ELSE IF NoPatchFlags(flags) \/ ApiBaseTooLong(flags)
     THEN /\ cmd' = "exited"
          /\ UNCHANGED <<meta, patches>>
     ELSE /\ patches' = CreatePatches(flags)
          /\ cmd' = "create"
          /\ meta' = meta
  /\ UNCHANGED <<fs, pc, opts, buffer, workingBuffer, results, idx, ret,
                 prev, ncalls, actualOutputPath, executable, signed,
                 platform, faults, scan, flags, auxVars>>

\* The default command after its patchDroid call: a dry run exits, with -o
\* the file is left where it is, otherwise on success with an outputPath the
\* alias is created and the metadata saved.
DefaultActionFinish ==
  /\ cmd = "create"
  /\ pc \in {"done", "threw"}
  /\ meta' = IF /\ ret.kind = "result"
                /\ ~opts.dryRun
                /\ opts.outputPath = NoPath
                /\ ret.success
                /\ ret.outputPath # NoPath
             THEN Metadata(flags) ELSE meta
  /\ cmd' = "exited"
  /\ pc' = "idle"
  /\ UNCHANGED <<fs, patches, opts, buffer, workingBuffer, results, idx, ret,
                 prev, ncalls, actualOutputPath, executable, signed,
                 platform, faults, scan, flags, auxVars>>

\* The update command for the alias up to its patchDroid call: the
\* descriptor list is rebuilt from the saved metadata; without binary
\* descriptors the metadata is saved again at once.
UpdateAction ==
  /\ cmd = "exited"
  /\ pc = "idle"
  /\ meta.saved
  /\ patches' = UpdatePatches(meta.patches)
  /\ cmd' = IF UpdatePatches(meta.patches) # <<>> THEN "update" ELSE "updated"
  /\ UNCHANGED <<fs, pc, opts, buffer, workingBuffer, results, idx, ret,
                 prev, ncalls, actualOutputPath, executable, signed,
                 platform, faults, scan, flags, meta, auxVars>>

\* The update command after its patchDroid call: on success the metadata is
\* saved again; a failure or an error is counted.
UpdateFinish ==
  /\ cmd = "update"
  /\ pc \in {"done", "threw"}
  /\ cmd' = "updated"
  /\ pc' = "idle"
  /\ UNCHANGED <<fs, patches, opts, buffer, workingBuffer, results, idx, ret,
                 prev, ncalls, actualOutputPath, executable, signed,
                 platform, faults, scan, flags, meta, auxVars>>

NextCli ==
  \/ DefaultAction
  \/ PatchDroidEnter
  \/ CheckPatch
  \/ DryRunReturn
  \/ NoPatchReturn
  \/ Backup
  \/ WriteOutput
  \/ VerifyReturn
  \/ DefaultActionFinish
  \/ UpdateAction
  \/ UpdateFinish

\* The default command creating an alias, then the update command.
CliSpec == InitCli /\ [][NextCli]_vars

\* ------------------------------------------- external search providers
\* The variables of a patchDroid call.
callVars == <<fs, patches, pc, opts, buffer, workingBuffer, results, idx,
              ret, prev, ncalls, actualOutputPath, executable, signed>>

\* No patchDroid call and no command of the tool is considered.
NoCall ==
  /\ fs = [p \in {DroidPath} |-> <<>>]
  /\ patches = <<>>
  /\ pc = "idle"
  /\ opts = NoOpts
  /\ buffer = <<>>
  /\ workingBuffer = <<>>
  /\ results = <<>>
  /\ idx = 1
  /\ ret = NoRet
  /\ prev = NoPrev
  /\ ncalls = 0
  /\ actualOutputPath = NoPath
  /\ executable = {DroidPath}
  /\ signed = {}
  /\ platform = "linux"
  /\ faults = FALSE
  /\ scan = NoScan
  /\ flags = NoFlags
  /\ meta = NoMeta
  /\ cmd = "lib"

MaxResults == 2      \* longest result list a search provider returns

\* Faulty variant of Providers: Serper is asked before Tavily.
ProvidersSerperFirst ==
  <<"smithery-exa", "google-pse", "serper", "tavily", "brave", "searxng",
    "duckduckgo">>

\* The providers in the order search() awaits them, by the source name it
\* returns for each.
Providers ==
  <<"smithery-exa", "google-pse", "tavily", "serper", "brave", "searxng",
    "duckduckgo">>

\* What a provider function returns: null or a list of results.
Null == [isNull |-> TRUE, list |-> <<>>]

List(l) == [isNull |-> FALSE, list |-> l]

ResultLists == UNION { [1..n -> {"x", "y"}] : n \in 0..MaxResults }

\* The returns of a provider function: null (no key, an error, no hit) or
\* the mapped list, which is empty for `data.items || []` and for
\* slice(0, numResults) with a negative numResults; searchDuckDuckGo returns
\* `results.length > 0 ? results : null`.
ProviderReturns(provider) ==
  IF provider = "duckduckgo"
  THEN {Null} \cup {List(l) : l \in ResultLists \ {<<>>}}
  ELSE {Null} \cup {List(l) : l \in ResultLists}

\* search(query, numResults) has been called.
InitSearch ==
  /\ NoCall
  /\ search = [NoSearch EXCEPT !.pc = "trying"]
  /\ proxy = NoProxy
  /\ orig = NoOrig

\* results = await searchX(query, numResults);
\* if (results && results.length > 0) return { results, source }
CallProvider ==
  /\ search.pc = "trying"
  /\ search.next <= Len(Providers)
  /\ \E r \in ProviderReturns(Providers[search.next]) :
       LET call == [provider |-> Providers[search.next], ret |-> r]
       IN search' =
            IF ~r.isNull /\ Len(r.list) > 0
            THEN [search EXCEPT !.called = Append(@, call),
                                !.pc = "returned",
                                !.results = r.list,
                                !.source = Providers[search.next]]
            ELSE [search EXCEPT !.called = Append(@, call),
                                !.next = @ + 1]
  /\ UNCHANGED <<callVars, platform, faults, scan, flags, meta, cmd, proxy,
                 orig>>

\* return { results: [], source: 'none' }
SearchNone ==
  /\ search.pc = "trying"
  /\ search.next > Len(Providers)
  /\ search' = [search EXCEPT !.pc = "returned", !.results = <<>>,
                              !.source = "none"]
  /\ UNCHANGED <<callVars, platform, faults, scan, flags, meta, cmd, proxy,
                 orig>>

NextSearch ==
  \/ CallProvider
  \/ SearchNone

\* One search of the external-providers proxy.
SearchSpec == InitSearch /\ [][NextSearch]_vars

\* ------------------------------------------- native-provider proxy server
MaxRequests == 2     \* requests the proxy server handles

\* url.pathname as the sequence of its segments: /api/llm/a/messages is
\* <<"api", "llm", "a", "messages">>.
Pathnames ==
  { <<"health">>,
    <<"api", "tools", "exa", "search">>,
    <<"api", "llm", "a", "messages">>,
    <<"api", "llm", "o", "chat">>,
    <<"api", "llm", "a">>,
    <<"api", "llm", "x", "y">>,
    <<"api", "sessions", "create">>,
    <<"api", "cli", "whoami">>,
    <<"api", "tools", "get-url-contents">>,
    <<"api", "other">> }

Methods == {"GET", "POST"}

\* proxyRes.statusCode of the upstream answer; 502 stands for the 'error'
\* event of the upstream request.
UpstreamStatuses == {200, 404, 502}

\* pathname.startsWith('/' + dir joined by '/' + '/')
StartsWithDir(pathname, dir) ==
  /\ Len(pathname) > Len(dir)
  /\ SubSeq(pathname, 1, Len(dir)) = dir

\* pathname.startsWith('/api/llm/a/') || pathname.startsWith('/api/llm/o/')
isCoreLLMApi(pathname) ==
  \/ StartsWithDir(pathname, <<"api", "llm", "a">>)
  \/ StartsWithDir(pathname, <<"api", "llm", "o">>)

\* What the request handler answers: status, body and whether the request
\* went upstream.
Response(status, body, upstream) ==
  [status |-> status, body |-> body, upstream |-> upstream]

\* The server listens, with or without STANDALONE_MODE=1.
InitProxy ==
  /\ NoCall
  /\ search = NoSearch
  /\ orig = NoOrig
  /\ \E standalone \in BOOLEAN :
       proxy = [NoProxy EXCEPT !.standalone = standalone]

\* http.createServer(async (req, res) => ...): one request.
HandleRequest ==
  /\ proxy.served < MaxRequests
  /\ \E pathname \in Pathnames, method \in Methods,
        upstreamStatus \in UpstreamStatuses, parsed \in BOOLEAN :
       LET r == IF pathname = <<"health">>
                THEN Response(200, "status ok", FALSE)
                ELSE IF pathname = <<"api", "tools", "exa", "search">>
                        /\ method = "POST"
                THEN IF parsed THEN Response(200, "results", FALSE)
                     ELSE Response(500, "error", FALSE)
                ELSE IF proxy.standalone /\ ~isCoreLLMApi(pathname)
                THEN IF pathname = <<"api", "sessions", "create">>
                     THEN Response(200, "local id", FALSE)
                     ELSE IF pathname = <<"api", "cli", "whoami">>
                     THEN Response(401, "Unauthorized", FALSE)
                     ELSE Response(200, "{}", FALSE)
                ELSE IF upstreamStatus = 502
                THEN Response(502, "Proxy failed", TRUE)
                ELSE Response(upstreamStatus, "upstream", TRUE)
       IN proxy' = [standalone |-> proxy.standalone,
                    served |-> proxy.served + 1,
                    pathname |-> pathname, method |-> method,
                    status |-> r.status, body |-> r.body,
                    upstream |-> r.upstream]
  /\ UNCHANGED <<callVars, platform, faults, scan, flags, meta, cmd, search,
                 orig>>

NextProxy == HandleRequest

\* The native-provider proxy server handling requests.
ProxySpec == InitProxy /\ [][NextProxy]_vars

\* -------------------------------------------- the loop of findAllPositions
\* Entries of positions after which the loop is no longer followed.
MaxPositions == MaxScanLen + 2

\* Faulty variant of NextPos: the scan resumes at the match itself.
NextPosSame(index, pattern) == index

\* pos = index + pattern.length
NextPos(index, pattern) == index + Len(pattern)

\* The descriptor lists of the calls followed to their end: one descriptor.
SingleDescriptorLists == {<<p>> : p \in PatchCatalog}

\* Either findAllPositions has been called with a buffer and a pattern, empty
\* or not (const positions = []; let pos = 0), or patchDroid is about to be
\* called on a file system whose operations can fail.

InitTermination ==
  \/ InitWith(SingleDescriptorLists, {"linux"}, TRUE)
  \/ /\ fs = [p \in {DroidPath} |-> <<>>]
     /\ patches = <<>>
     /\ pc = "idle"
     /\ opts = NoOpts
     /\ buffer = <<>>
     /\ workingBuffer = <<>>
     /\ results = <<>>
     /\ idx = 1
     /\ ret = NoRet
     /\ prev = NoPrev
     /\ ncalls = 0
     /\ actualOutputPath = NoPath
     /\ executable = {DroidPath}
     /\ signed = {}
     /\ platform = "linux"
     /\ faults = FALSE
     /\ flags = NoFlags
     /\ meta = NoMeta
     /\ cmd = "scan"
     /\ search = NoSearch
     /\ proxy = NoProxy
     /\ orig = NoOrig
     /\ \E b \in ScanBuffers, p \in ScanPatterns \cup {<<>>} :
          scan = [buffer |-> b, pattern |-> p, positions |-> <<>>,
                  pos |-> 0, returned |-> FALSE]

\* One iteration of while (true) that finds a match:
\* positions.push(index); pos = index + pattern.length
ScanStep ==
  /\ cmd = "scan"
  /\ ~scan.returned
  /\ IndexOf(scan.buffer, scan.pattern, scan.pos) # -1
  /\ Len(scan.positions) < MaxPositions
  /\ LET index == IndexOf(scan.buffer, scan.pattern, scan.pos)
     IN scan' = [scan EXCEPT !.positions = Append(@, index),
                             !.pos = NextPos(index, scan.pattern)]
  /\ UNCHANGED <<callVars, platform, faults, flags, meta, cmd, auxVars>>

\* if (index === -1) break; return positions
ScanReturn ==
  /\ cmd = "scan"
  /\ ~scan.returned
  /\ IndexOf(scan.buffer, scan.pattern, scan.pos) = -1
  /\ scan' = [scan EXCEPT !.returned = TRUE]
  /\ UNCHANGED <<callVars, platform, faults, flags, meta, cmd, auxVars>>

NextTermination ==
  \/ PatchDroidEnter
  \/ CheckPatch
  \/ DryRunReturn
  \/ NoPatchReturn
  \/ Backup
  \/ WriteOutput
  \/ VerifyReturn
  \/ ScanStep
  \/ ScanReturn

\* A patchDroid call, or the loop of findAllPositions, run to its end: the
\* process goes on as long as it has a step to take.
TerminationSpec ==
  InitTermination /\ [][NextTermination]_vars /\ WF_vars(NextTermination)

\* ------------------------------------- a call on a file of several matches
\* Length of the files on which a regex can match more than once.
MaxRegexLen == 4

RegexBuffers == UNION { [1..n -> Bytes] : n \in 0..MaxRegexLen }

InitRegex == InitOn(RegexBuffers, SingleDescriptorLists, {"linux"}, FALSE)

\* One patchDroid call with one descriptor on a file of up to MaxRegexLen
\* bytes.
RegexSpec == InitRegex /\ [][NextCall]_vars

\* --------------------------------------- replaceOriginal / restoreOriginal
MaxOrigCalls == 5    \* calls and changes of the original binary followed

\* const latestBackupPath = join(BINS_DIR, "droid-original-latest")
LatestBackupPath == <<"bins", "droid-original-latest">>

\* Contents of the original binary: the releases the user may have installed.
Versions == { <<b>> : b \in Bytes }

\* Faulty variant of LatestBackupNeeded: every call copies the original.
LatestBackupAlways(files) == TRUE

\* if (!existsSync(latestBackupPath)) await copyFile(originalPath, latestBackupPath)
LatestBackupNeeded(files) == ~existsSync(files, LatestBackupPath)

\* The original binary and a patched binary exist, `droid-original-latest`
\* does not exist yet, `<originalPath>.backup` may exist.
InitReplace ==
  /\ \E original \in Versions, patched \in Versions,
        localBackup \in Versions \cup {<<>>} :
       fs = IF localBackup = <<>>
            THEN [p \in {DroidPath, BinsPath} |->
                    IF p = DroidPath THEN original ELSE patched]
            ELSE [p \in {DroidPath, BinsPath, BackupPath(DroidPath)} |->
                    IF p = DroidPath THEN original
                    ELSE IF p = BinsPath THEN patched ELSE localBackup]
  /\ patches = <<>>
  /\ pc = "idle"
  /\ opts = NoOpts
  /\ buffer = <<>>
  /\ workingBuffer = <<>>
  /\ results = <<>>
  /\ idx = 1
  /\ ret = NoRet
  /\ prev = NoPrev
  /\ ncalls = 0
  /\ actualOutputPath = NoPath
  /\ executable = {DroidPath, BinsPath}
  /\ signed = {}
  /\ platform \in {"linux", "darwin"}
  /\ faults = FALSE
  /\ scan = NoScan
  /\ flags = NoFlags
  /\ meta = NoMeta
  /\ cmd = "replace"
  /\ search = NoSearch
  /\ proxy = NoProxy
  /\ orig = NoOrig

\* replaceOriginal(patchedBinaryPath, originalPath): back the original up when
\* no backup exists, copy the patched binary over it, chmod, and re-sign on
\* macOS (a failure of codesign is caught).  orig records the bytes the original had before the first call of
\* the current sequence of calls and whether a backup existed then.
ReplaceOriginal ==
  /\ cmd = "replace"
  /\ orig.calls < MaxOrigCalls
  /\ LET first == orig.replaced = 0 \/ orig.restored
         backedUp == IF LatestBackupNeeded(fs)
                     THEN copyFile(fs, DroidPath, LatestBackupPath)
                     ELSE fs
     IN /\ fs' = copyFile(backedUp, BinsPath, DroidPath)
        /\ orig' = [replaced |-> IF first THEN 1 ELSE orig.replaced + 1,
                    before |-> IF first THEN fs[DroidPath] ELSE orig.before,
                    fresh |-> IF first
                              THEN ~existsSync(fs, LatestBackupPath)
                              ELSE orig.fresh,
                    restored |-> FALSE,
                    calls |-> orig.calls + 1]
  /\ executable' = executable \cup {DroidPath}
  /\ \E signOk \in BOOLEAN :
       signed' = IF platform = "darwin" /\ signOk THEN signed \cup {DroidPath}
                 ELSE signed \ {DroidPath}
  /\ UNCHANGED <<patches, pc, opts, buffer, workingBuffer, results, idx, ret,
                 prev, ncalls, actualOutputPath, platform, faults, scan,
                 flags, meta, cmd, search, proxy>>

\* restoreOriginal(originalPath): copy `droid-original-latest` over the
\* original, or `<originalPath>.backup` when there is no latest backup, or
\* report that no backup was found.
RestoreOriginal ==
  /\ cmd = "replace"
  /\ orig.calls < MaxOrigCalls
  /\ LET source == IF existsSync(fs, LatestBackupPath) THEN LatestBackupPath
                   ELSE IF existsSync(fs, BackupPath(DroidPath))
                   THEN BackupPath(DroidPath)
                   ELSE NoPath
     IN /\ fs' = IF source = NoPath THEN fs
                 ELSE copyFile(fs, source, DroidPath)
        /\ executable' = IF source = NoPath THEN executable
                         ELSE executable \cup {DroidPath}
        /\ \E signOk \in BOOLEAN :
             signed' = IF source = NoPath THEN signed
                       ELSE IF platform = "darwin" /\ signOk
                       THEN signed \cup {DroidPath}
                       ELSE signed \ {DroidPath}
  /\ orig' = [orig EXCEPT !.replaced = IF orig.restored THEN 0 ELSE @,
                          !.restored = TRUE,
                          !.calls = @ + 1]
  /\ UNCHANGED <<patches, pc, opts, buffer, workingBuffer, results, idx, ret,
                 prev, ncalls, actualOutputPath, platform, faults, scan,
                 flags, meta, cmd, search, proxy>>

\* Between two calls the original binary is changed by its own installer.
OriginalChanged ==
  /\ cmd = "replace"
  /\ orig.calls < MaxOrigCalls
  /\ \E v \in Versions \ {fs[DroidPath]} :
       fs' = writeFile(fs, DroidPath, v)
  /\ signed' = signed \ {DroidPath}
  /\ orig' = [orig EXCEPT !.replaced = IF orig.restored THEN 0 ELSE @,
                          !.restored = FALSE,
                          !.calls = @ + 1]
  /\ UNCHANGED <<patches, pc, opts, buffer, workingBuffer, results, idx, ret,
                 prev, ncalls, actualOutputPath, executable, platform, faults,
                 scan, flags, meta, cmd, search, proxy>>

NextReplace ==
  \/ ReplaceOriginal
  \/ RestoreOriginal
  \/ OriginalChanged

\* Calls of replaceOriginal and restoreOriginal on the droid binary.
ReplaceSpec == InitReplace /\ [][NextReplace]_vars

\* ------------------------------------------------------ notions for claims
\* Some pattern of the descriptor (a variant's pattern, or the regex) occurs.
HasPattern(buf, patch) ==
  IF IsRegex(patch) THEN RegexIndexOf(buf, patch.regexPattern, 0) # -1
  ELSE \E i \in 1..Len(VariantsOf(patch)) :
         Includes(buf, VariantsOf(patch)[i].pattern)

\* The descriptor is recognisable as already applied in buf.
HasReplacement(buf, patch) ==
  IF IsRegex(patch) THEN RegexAlreadyPatched(buf, patch)
  ELSE \E i \in 1..Len(VariantsOf(patch)) :
         Includes(buf, VariantsOf(patch)[i].replacement)

\* buf with the first matching variant of patch (or its regex) substituted.
Substituted(buf, patch) ==
  IF IsRegex(patch)
  THEN ApplyMatches(buf, buf, patch.regexPattern, patch.regexReplacement,
                    RegexMatches(buf, patch.regexPattern))
  ELSE LET m == MatchedVariantIndex(buf, patch)
       IN IF m = 0 THEN buf
          ELSE ApplyAt(buf, VariantsOf(patch)[m].replacement,
                       findAllPositions(buf, VariantsOf(patch)[m].pattern))

\* d2's pattern occurs only once d1 has been applied, and d2's replacement is
\* absent from the input.
OrderDependent(buf, d1, d2) ==
  /\ ~HasPattern(buf, d2)
  /\ ~HasReplacement(buf, d2)
  /\ HasPattern(Substituted(buf, d1), d2)

\* The call has returned a result.
Returned == pc = "done" /\ ret.kind = "result"

\* The call is live and has written its output file.
Wrote ==
  /\ Returned
  /\ ~opts.dryRun
  /\ ~ret.noPatchNeeded
  /\ ret.outputPath # NoPath

\* The call in progress is live and runs on the output of the previous call,
\* which was live too (the descriptor list is the same list).
Rerun ==
  /\ pc \in {"loop", "write", "verify", "done"}
  /\ ~opts.dryRun
  /\ prev.kind = "result"
  /\ ~prev.dryRun
  /\ prev.outputPath # NoPath
  /\ opts.inputPath = prev.outputPath

\* Every descriptor is reported as already patched and nothing is to be done.
AllAlreadyPatched ==
  /\ Len(ret.results) = Len(patches)
  /\ \A i \in 1..Len(ret.results) :
       /\ ret.results[i].found = 0
       /\ ret.results[i].success
       /\ ret.results[i].alreadyPatched
  /\ ret.success
  /\ ret.noPatchNeeded
  /\ ret.outputPath = opts.inputPath

\* ------------------------------------------------------------------ claims
\* C1: in a live call every descriptor is matched against the working buffer
\* as mutated by the earlier descriptors: when the second descriptor's pattern
\* occurs only after the first one's replacement has been applied, the list
\* in that order finds both with success, and when the first descriptor's
\* pattern would only occur after the second one's replacement, the first is
\* reported found = 0, success = false, alreadyPatched = false.
C1_OrderingDependency ==
  (Returned /\ ~opts.dryRun /\ Len(patches) = 2) =>
    /\ OrderDependent(buffer, patches[1], patches[2]) =>
         \A i \in 1..2 : ret.results[i].found > 0 /\ ret.results[i].success
    /\ OrderDependent(buffer, patches[2], patches[1]) =>
         /\ ret.results[1].found = 0
         /\ ~ret.results[1].success
         /\ ~ret.results[1].alreadyPatched

C1_Witness ==
  /\ Returned /\ ~opts.dryRun /\ Len(patches) = 2
  /\ OrderDependent(buffer, patches[1], patches[2])
  /\ ret.results[2].found > 0

\* C2 as stated: a live run on the output of a live run with the same list
\* reports every descriptor as already patched, success, noPatchNeeded and
\* outputPath = inputPath, for every input and descriptor list.
C2_OriginalIdempotence == (pc = "done" /\ Rerun) => AllAlreadyPatched

\* C2 amended: when the first live run returned success = true and every
\* descriptor has a replacement (or its already-patched regex) present in
\* that run's output, the second live run reports every descriptor as
\* already patched with found = 0, returns success, noPatchNeeded and
\* outputPath = inputPath, and no step of it changes any file.
C2_Idempotence ==
  [][ ( /\ Rerun'
        /\ prev'.success
        /\ \A i \in 1..Len(patches') : HasReplacement(buffer', patches'[i]) )
      => ( /\ fs' = fs
           /\ pc' \in {"loop", "done"}
           /\ pc' = "done" => AllAlreadyPatched' ) ]_vars

C2_Witness ==
  /\ pc = "done" /\ Rerun /\ prev.success
  /\ opts.inputPath = PatchedPath(DroidPath)
  /\ Len(patches) = MaxSeqPatches
  /\ \A i \in 1..Len(patches) : HasReplacement(buffer, patches[i])
  /\ ret.noPatchNeeded

\* C3 as stated: whenever a call returns, every descriptor has a result, and a
\* descriptor recorded as not found and not already patched makes the
\* aggregate success false, in dry-run and in live calls.
C3_NotFoundSurfaces ==
  Returned =>
    /\ Len(ret.results) = Len(patches)
    /\ (\E i \in 1..Len(ret.results) :
          /\ ret.results[i].found = 0
          /\ ~ret.results[i].success
          /\ ~ret.results[i].alreadyPatched) => ~ret.success

\* C4: after a live call that wrote its output, the aggregate success is true
\* exactly when no descriptor has a pattern (any variant's, or the regex)
\* left in the output file; the file is in place and holds the working buffer
\* also when success is false.
C4_SuccessIsVerification ==
  Wrote =>
    /\ existsSync(fs, ret.outputPath)
    /\ fs[ret.outputPath] = workingBuffer
    /\ ret.success <=>
         \A i \in 1..Len(patches) : ~HasPattern(fs[ret.outputPath], patches[i])

C4_Witness ==
  /\ Wrote
  /\ ~ret.success
  /\ existsSync(fs, ret.outputPath)
  /\ \E i \in 1..Len(patches) :
       /\ Len(patches[i].variants) > 0
       /\ ret.results[i].found > 0
       /\ HasPattern(fs[ret.outputPath], patches[i])

\* Byte values of a descriptor's patterns and of the replacements it can write.
PatternBytes(patch) ==
  LET vs == VariantsOf(patch)
  IN UNION { {vs[i].pattern[k] : k \in 1..Len(vs[i].pattern)}
             : i \in 1..Len(vs) }

ReplacementBytes(patch) ==
  IF IsRegex(patch)
  THEN LET rr == patch.regexReplacement
       IN IF \E k \in 1..Len(rr) : rr[k] = Ref THEN Bytes
          ELSE {rr[k] : k \in 1..Len(rr)}
  ELSE LET vs == VariantsOf(patch)
       IN UNION { {vs[i].replacement[k] : k \in 1..Len(vs[i].replacement)}
                  : i \in 1..Len(vs) }

\* Descriptor i is a single byte variant of equal lengths whose pattern bytes
\* are written neither by itself nor by a later descriptor of the list.
Consistent(ps, i) ==
  /\ ~IsRegex(ps[i])
  /\ ps[i].variants = <<>>
  /\ Len(ps[i].pattern) > 0
  /\ Len(ps[i].pattern) = Len(ps[i].replacement)
  /\ \A j \in i..Len(ps) : PatternBytes(ps[i]) \cap ReplacementBytes(ps[j]) = {}

C6_DryRunNoSideEffects ==
  [][ (opts'.dryRun /\ pc' \in {"loop", "done", "threw"})
      => ( /\ fs' = fs
           /\ workingBuffer' = buffer'
           /\ pc' # "threw" => buffer' = fs'[opts'.inputPath] ) ]_vars

C6_Witness ==
  /\ Returned /\ opts.dryRun
  /\ \E i \in 1..Len(ret.results) : ret.results[i].found > 0
  /\ workingBuffer = buffer

\* C7: a dry run returns success exactly when every descriptor has found > 0
\* or alreadyPatched; with the empty list it returns success.
C7_DryRunSuccess ==
  (Returned /\ opts.dryRun) =>
    /\ ret.dryRun
    /\ Len(ret.results) = Len(patches)
    /\ ret.success <=>
         \A i \in 1..Len(ret.results) :
           ret.results[i].found > 0 \/ ret.results[i].alreadyPatched
    /\ patches = <<>> => ret.success

C7_Witness ==
  /\ Returned /\ opts.dryRun /\ ~ret.success
  /\ Len(patches) = 2
  /\ ret.results[1].found > 0
  /\ ret.results[2].found = 0 /\ ~ret.results[2].alreadyPatched

\* C8: in a live call in which no descriptor is found, no step writes a file;
\* the call returns success, noPatchNeeded and outputPath = inputPath when
\* every descriptor is already patched (also for the empty list), and
\* success = false without outputPath otherwise.
C8_NoPatchNeeded ==
  [][ ( /\ ~opts'.dryRun
        /\ pc' \in {"loop", "done"}
        /\ \A i \in 1..Len(results') : results'[i].found = 0 )
      => ( /\ fs' = fs
           /\ pc' = "done" =>
                IF \A i \in 1..Len(results') : results'[i].alreadyPatched
                THEN /\ ret'.success
                     /\ ret'.noPatchNeeded
                     /\ ret'.outputPath = opts'.inputPath
                ELSE /\ ~ret'.success
                     /\ ~ret'.noPatchNeeded
                     /\ ret'.outputPath = NoPath ) ]_vars

C8_Witness ==
  /\ Returned /\ ~opts.dryRun
  /\ Len(patches) = 2
  /\ \A i \in 1..Len(results) : results[i].found = 0
  /\ results[1].alreadyPatched
  /\ ~results[2].alreadyPatched
  /\ ~ret.success

\* The call is live and past its backup step.
PastBackup == pc \in {"write", "verify"} \/ Wrote

\* C9: a backup-enabled live call that has something to patch leaves
\* `<inputPath>.backup` in existence; the backup is created only by such a
\* call, as a copy of the input bytes the call read before patching; and an
\* existing backup is never changed or removed by any later step.
C9_BackupSafety ==
  [][ /\ (PastBackup' /\ opts'.backup)
         => existsSync(fs', BackupPath(opts'.inputPath))
      /\ \A p \in InputPaths :
           LET b == BackupPath(p)
           IN /\ existsSync(fs, b) => (existsSync(fs', b) /\ fs'[b] = fs[b])
              /\ (~existsSync(fs, b) /\ existsSync(fs', b)) =>
                   /\ opts.inputPath = p
                   /\ opts.backup /\ ~opts.dryRun
                   /\ patchesNeeded(results) # {}
                   /\ fs'[b] = buffer
                   /\ fs[p] = buffer ]_vars

C9_Witness ==
  /\ pc = "write"
  /\ opts.backup
  /\ ncalls > 1
  /\ existsSync(fs, BackupPath(opts.inputPath))
  /\ fs[BackupPath(opts.inputPath)] # buffer
  /\ workingBuffer # buffer

\* C10: a call whose inputPath does not exist throws before anything else:
\* no descriptor is evaluated, no result is returned, nothing is read and no
\* file is created or changed, up to the caller getting the error.
C10_MissingInput ==
  [][ /\ (pc = "idle" /\ pc' # "idle" /\ ~existsSync(fs, opts'.inputPath))
         => ( /\ pc' = "threw"
              /\ ret'.kind = "error"
              /\ ret'.results = <<>>
              /\ results' = <<>>
              /\ buffer' = <<>> /\ workingBuffer' = <<>>
              /\ fs' = fs )
      /\ pc = "threw" => (pc' = "idle" /\ fs' = fs /\ prev'.kind = "error")
    ]_vars

C10_Witness ==
  /\ pc = "threw"
  /\ ~existsSync(fs, opts.inputPath)
  /\ ret.kind = "error"

\* Offsets at which P occurs in B.
Occurrences(B, P) ==
  {o \in 0..(Len(B) - Len(P)) : SubSeq(B, o + 1, o + Len(P)) = P}

\* C12: for a non-empty pattern P, the offsets findAllPositions(B, P) returns
\* are strictly ascending, consecutive offsets differ by at least |P|, and
\* the bytes of B at each returned offset are exactly P.
C12_ScanSound ==
  scan.returned =>
    LET B == scan.buffer
        P == scan.pattern
        ps == scan.positions
    IN /\ \A i \in 1..Len(ps) :
            /\ ps[i] >= 0
            /\ ps[i] + Len(P) <= Len(B)
            /\ SubSeq(B, ps[i] + 1, ps[i] + Len(P)) = P
       /\ \A i \in 1..(Len(ps) - 1) :
            /\ ps[i] < ps[i + 1]
            /\ ps[i + 1] - ps[i] >= Len(P)

C12_Witness ==
  /\ scan.returned
  /\ Len(scan.pattern) >= 2
  /\ Len(scan.positions) >= 2
  /\ scan.positions[1] + 1 \in Occurrences(scan.buffer, scan.pattern)

\* C13: findAllPositions is the greedy leftmost non-overlapping scan: it
\* returns no offset exactly when P does not occur, its first offset is the
\* leftmost occurrence, each next offset is the leftmost occurrence at or
\* after the end of the previous match, no occurrence starts at or after the
\* end of the last match, every occurrence overlaps a returned match, and the
\* buffer and the pattern are as they were before the call.
C13_GreedyLeftmost ==
  [][ scan'.returned =>
        LET B == scan'.buffer
            P == scan'.pattern
            ps == scan'.positions
            occ == Occurrences(B, P)
            After(i) == {o \in occ : o >= ps[i] + Len(P)}
        IN /\ B = scan.buffer
           /\ P = scan.pattern
           /\ (ps = <<>>) <=> (occ = {})
           /\ ps # <<>> => (ps[1] \in occ /\ \A o \in occ : ps[1] <= o)
           /\ \A i \in 1..(Len(ps) - 1) :
                ps[i + 1] \in After(i) /\ \A o \in After(i) : ps[i + 1] <= o
           /\ ps # <<>> => After(Len(ps)) = {}
           /\ \A o \in occ :
                \E i \in 1..Len(ps) :
                  o < ps[i] + Len(P) /\ ps[i] < o + Len(P) ]_vars

C13_Witness ==
  /\ scan.returned
  /\ Len(scan.positions) >= 2
  /\ \E o \in Occurrences(scan.buffer, scan.pattern) :
       \A i \in 1..Len(scan.positions) : scan.positions[i] # o

\* Index of the first variant, in declared order, whose pattern occurs in
\* buf; 0 when no variant's pattern occurs.
FirstOccurring(buf, patch) ==
  LET vs == VariantsOf(patch)
      occurring == {i \in 1..Len(vs) : Occurrences(buf, vs[i].pattern) # {}}
  IN IF occurring = {} THEN 0
     ELSE CHOOSE i \in occurring : \A h \in occurring : i <= h

\* Offset k lies in a region of length len starting at one of positions.
Covered(positions, len, k) ==
  \E j \in 1..Len(positions) : positions[j] <= k /\ k < positions[j] + len

\* C14: the loop step for a byte-variant descriptor of which some pattern
\* occurs uses the first variant, in declared order (primary first), whose
\* pattern occurs in the working buffer: the recorded offsets are that
\* variant's matches, a live step overwrites exactly those regions with that
\* variant's replacement and leaves every other byte as it was (so no later
\* variant is matched or applied), and a dry-run step leaves the buffer as it
\* was.
C14_FirstVariantWins ==
  [][ ( /\ pc = "loop" /\ idx' = idx + 1
        /\ ~IsRegex(patches[idx])
        /\ FirstOccurring(workingBuffer, patches[idx]) # 0 )
      => LET v == VariantsOf(patches[idx])[
                    FirstOccurring(workingBuffer, patches[idx])]
             r == results'[idx]
         IN /\ r.found > 0
            /\ r.found = Len(r.positions)
            /\ r.success /\ ~r.alreadyPatched
            /\ {r.positions[j] : j \in 1..Len(r.positions)}
                 \subseteq Occurrences(workingBuffer, v.pattern)
            /\ \A o \in Occurrences(workingBuffer, v.pattern) :
                 Covered(r.positions, Len(v.pattern), o)
            /\ Len(workingBuffer') = Len(workingBuffer)
            /\ \A k \in 0..(Len(workingBuffer) - 1) :
                 workingBuffer'[k + 1] =
                   IF ~opts.dryRun
                      /\ Covered(r.positions, Len(v.replacement), k)
                   THEN LET j == CHOOSE j \in 1..Len(r.positions) :
                                   /\ r.positions[j] <= k
                                   /\ k < r.positions[j] + Len(v.replacement)
                        IN v.replacement[k - r.positions[j] + 1]
                   ELSE workingBuffer[k + 1] ]_vars

C14_Witness ==
  /\ pc = "loop" /\ idx = 2 /\ ~opts.dryRun
  /\ Len(patches[1].variants) > 0
  /\ \A i \in 1..Len(VariantsOf(patches[1])) :
       Occurrences(buffer, VariantsOf(patches[1])[i].pattern) # {}
  /\ results[1].found > 0
  /\ workingBuffer # buffer
  /\ \E i \in 2..Len(VariantsOf(patches[1])) :
       Occurrences(workingBuffer, VariantsOf(patches[1])[i].pattern) # {}

\* Some match of the regex rx in content.
RegexOccurs(content, rx) ==
  \E o \in 0..(Len(content) - Len(rx)) :
    \A k \in 1..Len(rx) : rx[k] = Dot \/ content[o + k] = rx[k]

\* C15: the loop step for a descriptor of which no pattern occurs in the
\* working buffer (no variant's pattern, or no match of the regex) records
\* found = 0 with no offsets and alreadyPatched = success, where
\* alreadyPatched is true exactly when some variant's replacement occurs in
\* the working buffer (byte descriptor) or alreadyPatchedRegexPattern matches
\* it (regex descriptor that defines it); the buffer stays as it was.
C15_NotFoundResult ==
  [][ ( /\ pc = "loop" /\ idx' = idx + 1
        /\ IF IsRegex(patches[idx])
           THEN /\ patches[idx].alreadyPatchedRegexPattern # <<>>
                /\ ~RegexOccurs(workingBuffer, patches[idx].regexPattern)
           ELSE FirstOccurring(workingBuffer, patches[idx]) = 0 )
      => LET patch == patches[idx]
             vs == VariantsOf(patch)
             r == results'[idx]
             applied ==
               IF IsRegex(patch)
               THEN RegexOccurs(workingBuffer,
                                patch.alreadyPatchedRegexPattern)
               ELSE \E i \in 1..Len(vs) :
                      Occurrences(workingBuffer, vs[i].replacement) # {}
         IN /\ r.found = 0
            /\ r.positions = <<>>
            /\ r.alreadyPatched = r.success
            /\ r.alreadyPatched <=> applied
            /\ workingBuffer' = workingBuffer ]_vars

C15_Witness ==
  /\ pc = "loop" /\ idx = 3
  /\ IsRegex(patches[2])
  /\ ~RegexOccurs(buffer, patches[2].regexPattern)
  /\ results[1].found = 0 /\ ~results[1].alreadyPatched
  /\ results[2].found = 0 /\ results[2].alreadyPatched
  /\ ~Includes(workingBuffer, SampleReplacement(patches[2].regexReplacement))

C18_LockedNeverFails == ~(pc = "threw" /\ ret.error = "EBUSY")

\* The output went to another path than finalOutputPath.
FellBack ==
  /\ pc \in {"verify", "done", "threw"}
  /\ actualOutputPath # NoPath
  /\ actualOutputPath # finalOutputPath

\* C18 amended: under Windows a write that fails because the destination is
\* locked (EBUSY) is not thrown; the working buffer goes to the alternate
\* path (finalOutputPath without .exe, .patched and -<digits>, then
\* -<timestamp> and .patched or .exe) and the locked file stays as it was;
\* when that write and chmod succeed the alternate file holds the working
\* buffer and is executable, and the call returns the alternate path as
\* outputPath with success telling whether the alternate file verifies.  On
\* the other platforms the EBUSY error is thrown.
C18_LockedFallback ==
  /\ (pc = "threw" /\ ret.error = "EBUSY") => ~IS_WINDOWS
  /\ FellBack =>
       /\ IS_WINDOWS
       /\ Len(actualOutputPath) >= 2
       /\ actualOutputPath[Len(actualOutputPath) - 1] \in Timestamps
       /\ actualOutputPath[Len(actualOutputPath)] \in {"patched", "exe"}
       /\ existsSync(fs, finalOutputPath)
       /\ fs[finalOutputPath] = buffer
       /\ pc \in {"verify", "done"} =>
            /\ existsSync(fs, actualOutputPath)
            /\ fs[actualOutputPath] = workingBuffer
            /\ actualOutputPath \in executable
       /\ pc = "done" =>
            /\ ret.kind = "result"
            /\ ret.outputPath = actualOutputPath
            /\ ret.success <=>
                 \A i \in 1..Len(patches) :
                   ~HasPattern(fs[actualOutputPath], patches[i])

C18_Witness ==
  /\ FellBack
  /\ pc = "done"
  /\ ret.success
  /\ ret.outputPath = actualOutputPath
  /\ \E i \in 1..Len(patches) : HasPattern(fs[finalOutputPath], patches[i])

\* C16: length preservation: from the read on, the working buffer has the
\* length of the input file read, and a file the call has written has that
\* length too, whatever the descriptors, also when a replacement is longer or
\* shorter than the bytes it replaces and when the match ends the buffer.
C16_LengthPreserved ==
  /\ pc \in {"loop", "write", "verify", "done"} =>
       /\ Len(workingBuffer) = Len(buffer)
       /\ opts.inputPath # finalOutputPath =>
            Len(fs[opts.inputPath]) = Len(buffer)
  /\ (pc \in {"verify", "done"} /\ actualOutputPath # NoPath) =>
       Len(fs[actualOutputPath]) = Len(buffer)

C16_Witness ==
  /\ Wrote
  /\ \E i \in 1..Len(patches) :
       /\ ~IsRegex(patches[i])
       /\ Len(patches[i].replacement) > Len(patches[i].pattern)
       /\ results[i].found > 0
       /\ results[i].positions[results[i].found]
            + Len(patches[i].replacement) > Len(buffer)
  /\ \E i \in 1..Len(patches) :
       /\ IsRegex(patches[i])
       /\ Len(patches[i].regexReplacement) # Len(patches[i].regexPattern)
       /\ results[i].found > 0
  /\ Len(fs[ret.outputPath]) = Len(buffer)

\* Descriptors of ps whose recorded matched regions in rs cover offset k.
Covering(ps, rs, k) ==
  {i \in 1..Len(ps) : Covered(rs[i].positions, Len(ps[i].pattern), k)}

\* C17: after a live call with byte descriptors of equal pattern and
\* replacement lengths that wrote its output, the output has the length of
\* the input, every byte outside all recorded matched regions is the input
\* byte at that offset, and every byte inside one is the byte, at that place
\* of the region, of a replacement of the last descriptor of the list that
\* recorded a region there (of the matched variant when the descriptor is the
\* first of the list); each descriptor with matches has success and is not
\* alreadyPatched.
C17_FrameEffect ==
  ( /\ Wrote
    /\ \A i \in 1..Len(patches) :
         /\ ~IsRegex(patches[i])
         /\ \A j \in 1..Len(VariantsOf(patches[i])) :
              Len(VariantsOf(patches[i])[j].pattern)
                = Len(VariantsOf(patches[i])[j].replacement) )
  => LET out == fs[ret.outputPath]
         rs == ret.results
     IN /\ Len(out) = Len(buffer)
        /\ \A i \in 1..Len(rs) :
             rs[i].found > 0 =>
               /\ rs[i].success /\ ~rs[i].alreadyPatched
               /\ rs[i].found = Len(rs[i].positions)
        /\ \A k \in 0..(Len(buffer) - 1) :
             LET cov == Covering(patches, rs, k)
             IN IF cov = {} THEN out[k + 1] = buffer[k + 1]
                ELSE LET i == CHOOSE i \in cov : \A h \in cov : i >= h
                         p == CHOOSE p \in 0..k :
                                /\ \E j \in 1..Len(rs[i].positions) :
                                     rs[i].positions[j] = p
                                /\ k < p + Len(patches[i].pattern)
                         vs == VariantsOf(patches[i])
                     IN /\ \E j \in 1..Len(vs) :
                             out[k + 1] = vs[j].replacement[k - p + 1]
                        /\ i = 1 =>
                             out[k + 1] =
                               vs[FirstOccurring(buffer, patches[1])]
                                 .replacement[k - p + 1]

C17_Witness ==
  /\ Wrote
  /\ Len(patches) = 2
  /\ \A i \in 1..2 : ~IsRegex(patches[i]) /\ ret.results[i].found > 0
  /\ Covering(patches, ret.results, 0) = {1, 2}
  /\ \E k \in 1..(Len(buffer) - 1) : Covering(patches, ret.results, k) = {}
  /\ fs[ret.outputPath] # buffer

\* The update command has rebuilt its descriptor list for the alias.
UpdateRebuilt == cmd \in {"update", "updated"}

\* C19 as stated: the descriptor list the update command rebuilds from the
\* saved metadata is the list the creating command passed to patchDroid for
\* the same flags (names, order, patterns and replacement bytes), for every
\* flag combination and every accepted --api-base value, trailing slashes
\* included.
C19_UpdateRebuildsSameList ==
  UpdateRebuilt => patches = CreatePatches(flags)

\* The flag of the saved metadata a descriptor name belongs to.
MetaFlag(m, name) ==
  IF name = "isCustom" THEN m.isCustom
  ELSE IF name = "skipLogin" THEN m.skipLogin
  ELSE IF name = "apiBase" THEN m.apiBase # <<>> /\ ~m.websearch
  ELSE IF name \in {"reasoningEffortSupported", "reasoningEffortDefault",
                    "reasoningEffortUIShow", "reasoningEffortUIEnable",
                    "reasoningEffortValidationBypass"}
  THEN m.reasoningEffort
  ELSE IF name \in {"noTelemetrySentryEnv1", "noTelemetrySentryEnv2",
                    "noTelemetryFlushBlock"}
  THEN m.noTelemetry
  ELSE IF name = "autoHighAutonomy" THEN m.autoHigh
  ELSE FALSE

\* The default command has saved the metadata after its patchDroid call.
SavedAfterPatch == cmd = "exited" /\ meta.saved /\ ret.kind = "result"

\* C20 as stated: when the metadata is saved after patchDroid, every
\* descriptor whose flag is true in the saved metadata has a per-descriptor
\* result with success = true.
C20_MetadataOnlyApplied ==
  SavedAfterPatch =>
    \A i \in 1..Len(ret.results) :
      MetaFlag(meta.patches, ret.results[i].name) => ret.results[i].success

\* The command line tool is about to call, or has called, patchDroid with
\* the descriptor list it built.
CliPassesPatches == cmd \in {"create", "update"}

\* C21 as stated: every descriptor the default command and the update command
\* pass to patchDroid has a replacement as long as its pattern; an --api-base
\* longer than 22 characters after stripping trailing slashes is rejected
\* before the call, a shorter one is padded to 22; with --websearch no
\* apiBase descriptor is passed.
C21_EqualLengths ==
  /\ CliPassesPatches =>
       \A i \in 1..Len(patches) :
         /\ Len(patches[i].pattern) = Len(patches[i].replacement)
         /\ patches[i].name = "apiBase" =>
              /\ ~flags.websearch
              /\ Len(patches[i].replacement) = Len(originalUrl)
  /\ (cmd = "create" /\ flags.apiBase # <<>> /\ ~flags.websearch) =>
       Len(StripTrailingSlashes(flags.apiBase)) <= Len(originalUrl)

\* The priority order of the search providers.
PriorityOrder ==
  <<"smithery-exa", "google-pse", "tavily", "serper", "brave", "searxng",
    "duckduckgo">>

\* The provider call c returned a non-empty list.
Yielded(c) == ~c.ret.isNull /\ c.ret.list # <<>>

CorePath(p) ==
  /\ Len(p) > 3
  /\ p[1] = "api" /\ p[2] = "llm" /\ p[3] \in {"a", "o"}

\* The server's own endpoints, /health and the search tool.
OwnEndpoint(p) ==
  p \in {<<"health">>, <<"api", "tools", "exa", "search">>}

\* The standalone proxy has answered a request.
StandaloneServed == proxy.standalone /\ proxy.served > 0

\* C23 as stated: in standalone mode only requests whose path starts with
\* /api/llm/a/ or /api/llm/o/ go upstream; /api/sessions/create is answered
\* 200 with a local session id, /api/cli/whoami 401,
\* /api/tools/get-url-contents 404, and every other path (the server's own
\* /health and search endpoints aside) 200 with an empty {} body.
C23_StandaloneMocks ==
  StandaloneServed =>
    LET p == proxy.pathname
    IN /\ proxy.upstream => CorePath(p)
       /\ p = <<"api", "sessions", "create">> =>
            proxy.status = 200 /\ proxy.body = "local id"
       /\ p = <<"api", "cli", "whoami">> => proxy.status = 401
       /\ p = <<"api", "tools", "get-url-contents">> => proxy.status = 404
       /\ ( /\ ~CorePath(p)
            /\ ~OwnEndpoint(p)
            /\ p \notin {<<"api", "sessions", "create">>,
                         <<"api", "cli", "whoami">>,
                         <<"api", "tools", "get-url-contents">>} )
          => proxy.status = 200 /\ proxy.body = "{}"

\* The output path of a call with options o: the caller's, or
\* `<inputPath>.patched`.
OutputPathOf(o) ==
  IF o.outputPath # NoPath THEN o.outputPath ELSE Append(o.inputPath, "patched")

\* The paths a call with options o may write: the output path, its alternate
\* paths for a locked destination, and `<inputPath>.backup`.
OwnPaths(o) ==
  {OutputPathOf(o), Append(o.inputPath, "backup")}
    \cup {FallbackPath(OutputPathOf(o), t) : t \in Timestamps}

\* C24: no step of a patchDroid call creates, changes or removes a file other
\* than the output path, the alternate output path and `<inputPath>.backup`;
\* and in a call whose outputPath is not inputPath no step changes the bytes
\* of the input file.
C24_OnlyOwnPaths ==
  [][ /\ \A p \in (DOMAIN fs) \cup (DOMAIN fs') :
           p \notin OwnPaths(opts') =>
             /\ p \in DOMAIN fs
             /\ p \in DOMAIN fs'
             /\ fs'[p] = fs[p]
      /\ (opts'.outputPath # opts'.inputPath
          /\ existsSync(fs, opts'.inputPath)) =>
           /\ existsSync(fs', opts'.inputPath)
           /\ fs'[opts'.inputPath] = fs[opts'.inputPath] ]_vars

\* A live call with the default output path has made a backup and written an
\* output that differs from the input.
C24_Witness ==
  /\ pc = "done"
  /\ ret.kind = "result"
  /\ opts.outputPath = NoPath
  /\ existsSync(fs, BackupPath(opts.inputPath))
  /\ existsSync(fs, actualOutputPath)
  /\ fs[actualOutputPath] # fs[opts.inputPath]
  /\ fs[opts.inputPath] = buffer

\* The loop of findAllPositions is being followed.
Scanning == cmd = "scan"

OccursAt(b, d, p) ==
  IF IsRegex(d) THEN RegexMatchesAt(b, d.regexPattern, p)
  ELSE \E i \in 1..Len(VariantsOf(d)) : MatchesAt(b, VariantsOf(d)[i].pattern, p)

\* The bytes d puts in place of its occurrence at offset p of b.
ReplacementAt(b, d, p) ==
  IF IsRegex(d)
  THEN Expand(SubSeq(b, p + 1, p + Len(d.regexPattern)), d.regexPattern,
              d.regexReplacement)
  ELSE LET vs == VariantsOf(d)
           i == CHOOSE i \in 1..Len(vs) : MatchesAt(b, vs[i].pattern, p)
       IN vs[i].replacement

\* b with every occurrence of d at the offsets ps overwritten in place.
OverwrittenAt(b, d, ps) ==
  [i \in 1..Len(b) |->
     LET covering == {k \in 1..Len(ps) :
                        ps[k] < i /\ i <= ps[k] + Len(ReplacementAt(b, d, ps[k]))}
     IN IF covering = {} THEN b[i]
        ELSE LET k == CHOOSE k \in covering : \A h \in covering : k >= h
             IN ReplacementAt(b, d, ps[k])[i - ps[k]]]

\* The loop iteration for patches[idx] pushes a result with found > 0.
FoundStep ==
  /\ pc = "loop"
  /\ Len(results') = Len(results) + 1
  /\ results'[Len(results')].found > 0

\* C26: when a descriptor, byte or regex, is found, found is the number of
\* positions, every position is an offset of the working buffer at which the
\* descriptor matches, and a live call overwrites the working buffer at
\* exactly these offsets, once per occurrence.
C26_OverwrittenAtOffsets ==
  [][ FoundStep =>
        LET d == patches[idx]
            r == results'[Len(results')]
        IN /\ r.found = Len(r.positions)
           /\ \A k \in 1..Len(r.positions) :
                 OccursAt(workingBuffer, d, r.positions[k])
           /\ ~opts.dryRun =>
                 workingBuffer' = OverwrittenAt(workingBuffer, d, r.positions)
    ]_vars

\* The working buffer of a live run on buf after the first n descriptors of ps.
RECURSIVE LiveBuffer(_, _, _)
LiveBuffer(buf, ps, n) ==
  IF n = 0 THEN buf ELSE Substituted(LiveBuffer(buf, ps, n - 1), ps[n])

\* The per-descriptor results of a live run of ps on buf.
LiveResults(buf, ps) ==
  [i \in 1..Len(ps) |-> CheckResult(LiveBuffer(buf, ps, i - 1), ps[i])]

\* No descriptor's matches depend on, or are destroyed by, the replacements of
\* the descriptors before it.
MatchIndependent(buf, ps) ==
  \A i \in 1..Len(ps) :
     LET alone == CheckResult(buf, ps[i])
         after == CheckResult(LiveBuffer(buf, ps, i - 1), ps[i])
     IN alone.found = after.found /\ alone.positions = after.positions

\* C27: a dry run evaluates every descriptor on the bytes read, a live run on
\* the bytes as edited by the descriptors before it; the results of the two
\* are equal only when no descriptor's matches depend on an earlier
\* replacement, and for an order-dependent list of two the dry run reports
\* the second descriptor with found = 0 where the live run reports found > 0.
C27_DryRunSeesInput ==
  /\ (Returned /\ opts.dryRun) =>
       /\ \A i \in 1..Len(patches) :
            ret.results[i] = CheckResult(buffer, patches[i])
       /\ ret.results = LiveResults(buffer, patches) =>
            MatchIndependent(buffer, patches)
  /\ (Returned /\ ~opts.dryRun) => ret.results = LiveResults(buffer, patches)
  /\ (Returned /\ Len(patches) = 2
        /\ OrderDependent(buffer, patches[1], patches[2])) =>
       IF opts.dryRun THEN ret.results[2].found = 0
       ELSE ret.results[2].found > 0

\* A dry run of an order-dependent list has returned: the second descriptor
\* is not found, and a live run of the same list on the same bytes finds it.
C27_Witness ==
  /\ Returned /\ opts.dryRun /\ Len(patches) = 2
  /\ OrderDependent(buffer, patches[1], patches[2])
  /\ ret.results[1].found > 0
  /\ ret.results[2].found = 0
  /\ LiveResults(buffer, patches)[2].found > 0

\* The descriptor loop of the call has ended without throwing.
AfterLoop ==
  /\ pc \notin {"idle", "threw"}
  /\ ~(pc = "loop" /\ idx <= Len(patches))

\* C28: after the descriptor loop results has one entry per descriptor, in
\* the order of the list and with the descriptor's name; an entry that is
\* alreadyPatched has found = 0 and success, an entry with found > 0 has
\* success and is not alreadyPatched, and an entry without success has
\* found = 0 and is not alreadyPatched.
C28_ResultPerDescriptor ==
  AfterLoop =>
    /\ Len(results) = Len(patches)
    /\ \A i \in 1..Len(results) :
         LET r == results[i]
         IN /\ r.name = patches[i].name
            /\ r.alreadyPatched => (r.found = 0 /\ r.success)
            /\ r.found > 0 => (r.success /\ ~r.alreadyPatched)
            /\ ~r.success => (r.found = 0 /\ ~r.alreadyPatched)

\* The loop has ended with one descriptor already patched, one found and
\* hence neither without success.
C28_Witness ==
  /\ AfterLoop
  /\ Len(results) = 2
  /\ \E i, j \in 1..2 :
       /\ results[i].alreadyPatched /\ results[i].found = 0
       /\ results[j].found > 0 /\ results[j].name = patches[j].name

\* The backup step of a live call copies the input: no backup existed.
BackupCopied ==
  /\ pc = "loop" /\ pc' = "write"
  /\ opts.backup
  /\ ~existsSync(fs, BackupPath(opts.inputPath))

\* The write of the output (to the output path or to the alternate path)
\* fails in a call with backup enabled.
WriteFailed ==
  /\ pc = "write" /\ pc' = "threw"
  /\ opts.backup
  /\ ret'.error \in {"EBUSY", "EACCES", "ENOSPC"}

\* The backup exists before the write step and the step leaves it as it is.
BackupKept ==
  (pc = "write" /\ opts.backup) =>
    /\ existsSync(fs, BackupPath(opts.inputPath))
    /\ existsSync(fs', BackupPath(opts.inputPath))
    /\ fs'[BackupPath(opts.inputPath)] = fs[BackupPath(opts.inputPath)]

\* A backup made by this call holds the bytes the call read from the input.
BackupHoldsInput ==
  BackupCopied =>
    /\ fs'[BackupPath(opts.inputPath)] = buffer
    /\ fs[opts.inputPath] = buffer

\* C29 as stated: the backup is complete before the output is written, holds
\* the pre-patch bytes when this call made it, and when the write fails the
\* backup still exists and the input is unchanged.
C29_InputUnchanged ==
  [][ /\ BackupKept
      /\ BackupHoldsInput
      /\ WriteFailed => fs'[opts.inputPath] = fs[opts.inputPath] ]_vars

\* C29 amended: the backup is complete before the output is written and holds
\* the pre-patch bytes when this call made it; when the write fails the
\* backup is still there, and the input is unchanged unless the failing write
\* had opened the input itself as its destination (in-place patching), which
\* leaves a proper prefix of the patched bytes in it.
C29_BackupBeforeWrite ==
  [][ /\ BackupKept
      /\ BackupHoldsInput
      /\ WriteFailed =>
           IF ret'.error = "ENOSPC" /\ actualOutputPath' = opts.inputPath
           THEN /\ Len(fs'[opts.inputPath]) < Len(workingBuffer)
                /\ fs'[opts.inputPath] =
                     SubSeq(workingBuffer, 1, Len(fs'[opts.inputPath]))
           ELSE fs'[opts.inputPath] = fs[opts.inputPath] ]_vars

\* An in-place write has failed after truncating the input, and the backup
\* this call made holds the bytes read.
C29_Witness ==
  /\ pc = "threw"
  /\ ret.error = "ENOSPC"
  /\ opts.backup
  /\ finalOutputPath = opts.inputPath
  /\ actualOutputPath = opts.inputPath
  /\ fs[opts.inputPath] # buffer
  /\ existsSync(fs, BackupPath(opts.inputPath))
  /\ fs[BackupPath(opts.inputPath)] = buffer

\* restoreOriginal has just returned after a sequence of one or more
\* replaceOriginal calls.
RestoredAfterReplace == orig.restored /\ orig.replaced >= 1

\* C30 as stated: after one or more replaceOriginal calls followed by
\* restoreOriginal the original holds the bytes it had immediately before the
\* first of these calls.
C30_RestoresFirstOriginal ==
  RestoredAfterReplace => fs[DroidPath] = orig.before

\* C30 amended: after one or more replaceOriginal calls followed by
\* restoreOriginal the original holds the bytes of `droid-original-latest`,
\* which are the bytes it had immediately before the first of these calls
\* when no such backup existed at that call; the backup is created only by a
\* replaceOriginal call that finds none, as a copy of the original, and is
\* never overwritten or removed afterwards, whatever happens to the original.
C30_RestoresBackup ==
  /\ [](RestoredAfterReplace =>
          /\ existsSync(fs, LatestBackupPath)
          /\ fs[DroidPath] = fs[LatestBackupPath]
          /\ orig.fresh => fs[DroidPath] = orig.before)
  /\ [][ IF existsSync(fs, LatestBackupPath)
         THEN /\ existsSync(fs', LatestBackupPath)
              /\ fs'[LatestBackupPath] = fs[LatestBackupPath]
         ELSE existsSync(fs', LatestBackupPath) =>
                /\ orig'.replaced >= 1 /\ ~orig'.restored
                /\ fs'[LatestBackupPath] = fs[DroidPath] ]_vars

\* Two replaceOriginal calls with a change of the original between them,
\* then restoreOriginal: the original is back to its first bytes, which are
\* neither the patched bytes nor the changed ones.
C30_Witness ==
  /\ RestoredAfterReplace
  /\ orig.replaced >= 2
  /\ orig.fresh
  /\ orig.calls >= 4
  /\ fs[DroidPath] = orig.before
  /\ fs[DroidPath] # fs[BinsPath]

====
